---- MODULE Spec2Model ----
(***************************************************************************)
(* Philosophy Resurrected (src/app.py): the encrypted upload store and the *)
(* position-ordered catalog (albums, tracks, videos, media,                *)
(* homepage_layout).                                                       *)
(*                                                                         *)
(* Strings are sequences of one-character strings, so that                 *)
(* secure_filename, os.path.splitext, os.path.normpath, the substring test *)
(* of uploaded_file and the extension test of allowed_file are computed as *)
(* the code computes them.  File contents are sequences of small integers  *)
(* (bytes).                                                                *)
(***************************************************************************)
EXTENDS Integers, Sequences, FiniteSets, TLC

VARIABLES
    key,      \* the process-wide Fernet key (app.py:32-40)
    files,    \* the filesystem below BASE_DIR: path -> bytes
    db,       \* the committed contents of site.db: table -> (id -> row), and
              \* sqlite_sequence: table -> the last rowid handed out
    pc,       \* per request thread, the statement it is at
    loc,      \* per request thread, the handler's local variables
    txn,      \* per request thread, its connection's uncommitted view (or NoTxn)
    last,     \* the last completed operation and its status
    puts,     \* the save_upload calls made directly on the upload store
              \* (SpecBlob, SpecRace) whose file was not deleted since
    obs       \* the request a run ended with, when it was watched: its
              \* fields, and the database and the files it started from

vars == <<key, files, db, pc, loc, txn, last, puts, obs>>

-----------------------------------------------------------------------------
(* Bounds of the model *)

\* files allowed in the uploads directory
MaxFiles == 2
\* length of an uploaded payload, in bytes
MaxDataLen == 1
\* rows inserted into the catalog after init_db, over all tables
MaxRows == 2
\* length of the id list of a reorder request
MaxOrder == 3

-----------------------------------------------------------------------------
(* Characters and strings *)

LowerLetters ==
    <<"a","b","c","d","e","f","g","h","i","j","k","l","m",
      "n","o","p","q","r","s","t","u","v","w","x","y","z">>

UpperLetters ==
    <<"A","B","C","D","E","F","G","H","I","J","K","L","M",
      "N","O","P","Q","R","S","T","U","V","W","X","Y","Z">>

DigitChars == <<"0","1","2","3","4","5","6","7","8","9">>

Range(s) == { s[i] : i \in DOMAIN s }

\* str.lower() on one character
LowerChar(c) ==
    IF \E i \in DOMAIN UpperLetters : UpperLetters[i] = c
    THEN LowerLetters[CHOOSE i \in DOMAIN UpperLetters : UpperLetters[i] = c]
    ELSE c

Lower(s) == [i \in DOMAIN s |-> LowerChar(s[i])]

\* s[i..j] as a sequence (empty when j < i)
Slice(s, i, j) == IF j < i THEN <<>> ELSE SubSeq(s, i, j)

\* sub in s (Python's substring test)
Contains(s, sub) ==
    \E i \in 1..(Len(s) - Len(sub) + 1) : SubSeq(s, i, i + Len(sub) - 1) = sub

\* the positions of character c in s
Positions(s, c) == { i \in DOMAIN s : s[i] = c }

Max(S) == CHOOSE x \in S : \A y \in S : y <= x
Min(S) == CHOOSE x \in S : \A y \in S : x <= y

\* s.split(c): the pieces between occurrences of c (empty pieces kept)
RECURSIVE Split(_, _)
Split(s, c) ==
    IF Positions(s, c) = {} THEN <<s>>
    ELSE LET i == Min(Positions(s, c))
         IN  <<Slice(s, 1, i - 1)>> \o Split(Slice(s, i + 1, Len(s)), c)

\* c.join(pieces)
RECURSIVE Join(_, _)
Join(pieces, c) ==
    IF Len(pieces) = 0 THEN <<>>
    ELSE IF Len(pieces) = 1 THEN pieces[1]
    ELSE pieces[1] \o <<c>> \o Join(Tail(pieces), c)

\* the pieces of a sequence of pieces that are not empty
RECURSIVE NonEmpty(_)
NonEmpty(pieces) ==
    IF Len(pieces) = 0 THEN <<>>
    ELSE IF Head(pieces) = <<>> THEN NonEmpty(Tail(pieces))
    ELSE <<Head(pieces)>> \o NonEmpty(Tail(pieces))

\* the characters of s that are in the set keep
RECURSIVE Filter(_, _)
Filter(s, keep) ==
    IF Len(s) = 0 THEN <<>>
    ELSE IF Head(s) \in keep THEN <<Head(s)>> \o Filter(Tail(s), keep)
    ELSE Filter(Tail(s), keep)

\* s.strip(chars)
RECURSIVE Strip(_, _)
Strip(s, chars) ==
    IF Len(s) = 0 THEN s
    ELSE IF s[1] \in chars THEN Strip(Tail(s), chars)
    ELSE IF s[Len(s)] \in chars THEN Strip(Slice(s, 1, Len(s) - 1), chars)
    ELSE s

\* str(n) for a natural number n
RECURSIVE Str(_)
Str(n) == IF n < 10 THEN <<DigitChars[n + 1]>>
          ELSE Str(n \div 10) \o <<DigitChars[(n % 10) + 1]>>

\* Python's None, as returned by save_upload and stored as NULL
None == <<"None">>

\* Python's truth test of a string or None
Truthy(s) == s # <<>> /\ s # None

-----------------------------------------------------------------------------
(* File names *)

ALLOWED_IMAGE ==
    { <<"p","n","g">>, <<"j","p","g">>, <<"j","p","e","g">>, <<"g","i","f">>,
      <<"s","v","g">>, <<"w","e","b","p">> }

ALLOWED_AUDIO ==
    { <<"m","p","3">>, <<"w","a","v">>, <<"o","g","g">>, <<"m","4","a">> }

ALLOWED_VIDEO ==
    { <<"m","p","4">>, <<"w","e","b","m">>, <<"m","o","v">>, <<"o","g","g">> }

\* filename.rsplit(".", 1)[-1].lower() if "." in filename else ""
Extension(filename) ==
    IF Positions(filename, ".") = {} THEN <<>>
    ELSE Lower(Slice(filename, Max(Positions(filename, ".")) + 1, Len(filename)))

allowed_file(filename, kind) ==
    CASE kind = "image" -> Extension(filename) \in ALLOWED_IMAGE
      [] kind = "audio" -> Extension(filename) \in ALLOWED_AUDIO
      [] kind = "video" -> Extension(filename) \in ALLOWED_VIDEO
      [] OTHER -> FALSE

\* the characters werkzeug's secure_filename keeps: [A-Za-z0-9_.-]
SafeChars ==
    Range(LowerLetters) \cup Range(UpperLetters) \cup Range(DigitChars)
        \cup {"_", ".", "-"}

\* werkzeug.utils.secure_filename on an ASCII name: path separators become
\* blanks, runs of blanks become one "_", other characters outside SafeChars
\* are dropped, leading and trailing "." and "_" are stripped
secure_filename(filename) ==
    LET blanked == [i \in DOMAIN filename |->
                        IF filename[i] = "/" THEN " " ELSE filename[i]]
        joined  == Join(NonEmpty(Split(blanked, " ")), "_")
    IN  Strip(Filter(joined, SafeChars), {".", "_"})

\* os.path.splitext on a name without separators: <<base, ext>>; a name whose
\* last dot is preceded by dots only has no extension
splitext(p) ==
    IF Positions(p, ".") = {} THEN <<p, <<>>>>
    ELSE LET d == Max(Positions(p, "."))
         IN  IF \E i \in 1..(d - 1) : p[i] # "."
             THEN <<Slice(p, 1, d - 1), Slice(p, d, Len(p))>>
             ELSE <<p, <<>>>>

\* the component stack of posixpath.normpath
RECURSIVE NormComps(_, _, _)
NormComps(comps, abs, new) ==
    IF Len(comps) = 0 THEN new
    ELSE LET comp == Head(comps)
             rest == Tail(comps)
         IN  IF comp = <<>> \/ comp = <<".">> THEN NormComps(rest, abs, new)
             ELSE IF comp # <<".", ".">>
                     \/ (~abs /\ Len(new) = 0)
                     \/ (Len(new) > 0 /\ new[Len(new)] = <<".", ".">>)
                  THEN NormComps(rest, abs, Append(new, comp))
             ELSE IF Len(new) > 0
                  THEN NormComps(rest, abs, Slice(new, 1, Len(new) - 1))
             ELSE NormComps(rest, abs, new)

\* os.path.normpath (POSIX)
normpath(path) ==
    IF path = <<>> THEN <<".">>
    ELSE LET abs  == path[1] = "/"
             body == Join(NormComps(Split(path, "/"), abs, <<>>), "/")
             full == IF abs THEN <<"/">> \o body ELSE body
         IN  IF full = <<>> THEN <<".">> ELSE full

-----------------------------------------------------------------------------
(* The filesystem.  BASE_DIR holds the key file and the directory uploads;   *)
(* uploads holds files and no directories.  A file is named by its path      *)
(* relative to uploads: "a.png", or "../filekey.key" for a file of BASE_DIR. *)

UploadsDirName == <<"u","p","l","o","a","d","s">>

KeyFileName == <<"f","i","l","e","k","e","y",".","k","e","y">>

\* KEY_PATH, relative to UPLOAD_FOLDER
KEY_PATH == <<".", ".", "/">> \o KeyFileName

NoEnt == [kind |-> "noent", path |-> <<>>]
IsDir == [kind |-> "dir", path |-> <<>>]
IsFile(path) == [kind |-> "file", path |-> path]

\* what the path comps[i..] names, seen from a directory depth levels below
\* (0) or above (-1: BASE_DIR) the uploads directory
RECURSIVE Walk(_, _, _)
Walk(comps, i, depth) ==
    IF i > Len(comps) THEN IsDir
    ELSE LET c == comps[i]
         IN  IF c = <<>> \/ c = <<".">> THEN Walk(comps, i + 1, depth)
             ELSE IF c = <<".", ".">> THEN Walk(comps, i + 1, depth - 1)
             ELSE IF depth = -1 /\ c = UploadsDirName THEN Walk(comps, i + 1, 0)
             ELSE IF i < Len(comps) THEN NoEnt
             ELSE IF depth = 0 THEN IsFile(c)
             ELSE IF depth = -1 THEN IsFile(<<".", ".", "/">> \o c)
             ELSE NoEnt

\* what Path(app.config["UPLOAD_FOLDER"]) / filename names
Locate(filename) ==
    IF filename # <<>> /\ filename[1] = "/" THEN NoEnt
    ELSE Walk(Split(filename, "/"), 1, 0)

\* Path(UPLOAD_FOLDER, filename).exists()
Exists(fs, filename) ==
    LET l == Locate(filename)
    IN  l.kind = "dir" \/ (l.kind = "file" /\ l.path \in DOMAIN fs)

\* the files of the uploads directory itself
Uploads(fs) == { p \in DOMAIN fs : Positions(p, "/") = {} }

\* fs with the file at path created or replaced
WriteFile(fs, path, bytes) ==
    [p \in DOMAIN fs \cup {path} |-> IF p = path THEN bytes ELSE fs[p]]

\* fs without the file at path
Unlink(fs, path) == [p \in DOMAIN fs \ {path} |-> fs[p]]

-----------------------------------------------------------------------------
(* Fernet.  A token is <<iv>> \o ciphertext \o <<tag>>; the tag is an        *)
(* injective function of the key, the iv and the ciphertext, as an HMAC is   *)
(* taken to be, and decrypt refuses a token whose tag does not match.        *)

\* the keys Fernet.generate_key may produce, and the ivs of encrypt
Keys == {1, 2}
IVs == {0, 1}

\* fernet.decrypt raising InvalidToken
InvalidToken == <<-1>>

\* a sequence of numbers below 3, as one number (injective)
RECURSIVE Num(_)
Num(s) == IF Len(s) = 0 THEN 0 ELSE (Head(s) + 1) + 4 * Num(Tail(s))

Tag(k, iv, ct) == Num(<<k, iv>> \o ct)

\* fernet.encrypt(file_data) with the iv drawn by the library
Encrypt(k, iv, data) ==
    LET ct == [i \in DOMAIN data |-> (data[i] + k + iv) % 2]
    IN  <<iv>> \o ct \o <<Tag(k, iv, ct)>>

\* fernet.decrypt(encrypted_data)
Decrypt(k, token) ==
    IF Len(token) < 2 THEN InvalidToken
    ELSE LET iv  == token[1]
             ct  == Slice(token, 2, Len(token) - 1)
             tag == token[Len(token)]
         IN  IF tag # Tag(k, iv, ct) THEN InvalidToken
             ELSE [i \in DOMAIN ct |-> (ct[i] + 4 - k - iv) % 2]

-----------------------------------------------------------------------------
(* The upload store: save_upload, delete_file_if_exists, uploaded_file *)

\* save_upload without its while loop: the secured name is taken as it is
FreeName_NoLoop(fs, base, ext, filename, counter) == filename

\* the while loop of save_upload: the first of filename, base_1ext,
\* base_2ext, ... that does not exist
RECURSIVE FreeName(_, _, _, _, _)
FreeName(fs, base, ext, filename, counter) ==
    IF Exists(fs, filename)
    THEN FreeName(fs, base, ext, base \o <<"_">> \o Str(counter) \o ext, counter + 1)
    ELSE filename

\* the name save_upload picks for an upload called filename (None for a name
\* secure_filename empties)
StoredName(fs, filename) ==
    LET secure == secure_filename(filename)
        parts  == splitext(secure)
    IN  IF secure = <<>> THEN None
        ELSE FreeName(fs, parts[1], parts[2], secure, 1)

\* save_upload run without interruption: the name returned and the files after
save_upload(fs, k, filename, data, iv) ==
    LET name == StoredName(fs, filename)
    IN  IF name = None THEN [name |-> None, fs |-> fs]
        ELSE [name |-> name,
              fs   |-> WriteFile(fs, Locate(name).path, Encrypt(k, iv, data))]

\* a delete_file_if_exists that unlinks nothing
delete_file_if_exists_Keep(fs, filename) == fs

\* the files after delete_file_if_exists(filename): unlinking a directory
\* raises, which the function catches
delete_file_if_exists(fs, filename) ==
    IF ~Truthy(filename) THEN fs
    ELSE LET l == Locate(filename)
         IN  IF l.kind = "file" /\ l.path \in DOMAIN fs
             THEN Unlink(fs, l.path)
             ELSE fs

Response(status, body) == [status |-> status, body |-> body]

\* the response of GET /uploads/<filename>
uploaded_file(fs, k, filename) ==
    LET safe == normpath(filename)
        l    == Locate(safe)
    IN  IF Contains(safe, <<".", ".">>) THEN Response(404, <<>>)
        ELSE IF ~Exists(fs, safe) THEN Response(404, <<>>)
        ELSE IF l.kind = "dir" THEN Response(500, <<>>)
        ELSE IF Decrypt(k, fs[l.path]) = InvalidToken THEN Response(500, <<>>)
        ELSE Response(200, Decrypt(k, fs[l.path]))

-----------------------------------------------------------------------------
(* The state after start-up: the key file is written (app.py:33-36), the    *)
(* uploads directory is empty, init_db has inserted the sample album, and   *)
(* no request is being served.                                              *)

Procs == {1, 2}

Tables == {"albums", "tracks", "videos", "media", "homepage_layout"}

NoRows == [i \in {} |-> i]

SampleTitle ==
    <<"G","e","n","e","s","i","s"," ","(","s","a","m","p","l","e",")">>

\* the album row init_db inserts
SampleAlbum ==
    [title |-> SampleTitle, description |-> <<"d","e","m","o">>,
     cover_path |-> <<>>, position |-> 0]

\* site.db after init_db.  Row ids are never handed out twice (the tables'
\* ids are taken to be AUTOINCREMENT keys); created_at is left out of the rows.
InitialDb ==
    [t \in Tables \cup {"sqlite_sequence"} |->
        CASE t = "albums" -> [i \in {1} |-> SampleAlbum]
          [] t = "sqlite_sequence" ->
                [u \in Tables |-> IF u = "albums" THEN 1 ELSE 0]
          [] OTHER -> NoRows]

NoObs == [op |-> "none"]
NoTxn == [open |-> FALSE]
NoLoc == [op |-> "none"]

Init ==
    /\ key \in Keys
    /\ files = [p \in {KEY_PATH} |-> <<key>>]
    /\ db = InitialDb
    /\ pc = [p \in Procs |-> "idle"]
    /\ loc = [p \in Procs |-> NoLoc]
    /\ txn = [p \in Procs |-> NoTxn]
    /\ last = [op |-> "none"]
    /\ puts = <<>>
    /\ obs = NoObs

catalogVars == <<db>>
threadVars == <<pc, loc, txn>>

-----------------------------------------------------------------------------
(* The upload store used on its own, one call at a time *)

\* upload names: a.png, a..png, ../a.png, and ".." (which secure_filename
\* empties)
A_PNG    == <<"a", ".", "p", "n", "g">>
A__PNG   == <<"a", ".", ".", "p", "n", "g">>
UP_A_PNG == <<".", ".", "/", "a", ".", "p", "n", "g">>
DOTDOT   == <<".", ".">>

UploadNames == {A_PNG, A__PNG, UP_A_PNG, DOTDOT}

\* payloads of at most MaxDataLen bytes, told apart by their length
RECURSIVE SeqsUpTo(_, _)
SeqsUpTo(S, n) ==
    IF n = 0 THEN {<<>>}
    ELSE LET shorter == SeqsUpTo(S, n - 1)
         IN  shorter \cup { Append(s, x) : s \in shorter, x \in S }

Payloads == SeqsUpTo({0}, MaxDataLen)

\* the entries of puts whose file is still there
RECURSIVE Surviving(_, _)
Surviving(ps, fs) ==
    IF Len(ps) = 0 THEN <<>>
    ELSE IF Head(ps).name \in DOMAIN fs
         THEN <<Head(ps)>> \o Surviving(Tail(ps), fs)
         ELSE Surviving(Tail(ps), fs)

\* one call of save_upload
BlobPut(ivs) ==
    \E filename \in UploadNames, data \in Payloads, iv \in ivs :
        LET r == save_upload(files, key, filename, data, iv)
        IN  /\ Cardinality(Uploads(files)) < MaxFiles
            /\ files' = r.fs
            /\ puts' = IF r.name = None THEN puts
                       ELSE Append(puts, [filename |-> filename,
                                          name |-> r.name, data |-> data])
            /\ last' = [op |-> "save_upload", saved |-> r.name # None]
            /\ UNCHANGED <<key, catalogVars, threadVars, obs>>

\* the names asked of uploaded_file and delete_file_if_exists: those stored,
\* and a few that are not
ProbeNames == Uploads(files) \cup {KEY_PATH, DOTDOT, <<".">>, <<"x">>}

\* one request GET /uploads/<filename>
BlobGet ==
    \E filename \in ProbeNames :
        /\ last' = [op |-> "uploaded_file",
                    status |-> uploaded_file(files, key, filename).status]
        /\ UNCHANGED <<key, files, catalogVars, threadVars, puts, obs>>

\* one call of delete_file_if_exists
BlobDelete ==
    \E filename \in ProbeNames \cup {<<>>, None} :
        /\ files' = delete_file_if_exists(files, filename)
        /\ puts' = Surviving(puts, files')
        /\ last' = [op |-> "delete_file_if_exists"]
        /\ UNCHANGED <<key, catalogVars, threadVars, obs>>

\* run one call at a time, the calls do not depend on the iv: one stands for all
NextBlob == BlobPut({0}) \/ BlobGet \/ BlobDelete

SpecBlob == Init /\ [][NextBlob]_vars

\* C3: run one call at a time, save_upload returns a name under which no file
\* existed when it was called, different from the name of every earlier
\* upload still stored, and leaves every earlier file as it was.
C3_SequentialPutIsFresh ==
    [][Len(puts') > Len(puts) =>
         LET name == puts'[Len(puts')].name
         IN  /\ ~Exists(files, name)
             /\ \A i \in DOMAIN puts : puts[i].name # name
             /\ \A p \in DOMAIN files : p \in DOMAIN files' /\ files'[p] = files[p]
             /\ name \in DOMAIN files']_vars

\* two uploads with the same original filename are both stored
C3_Witness ==
    /\ Len(puts) = 2
    /\ puts[1].filename = puts[2].filename
    /\ puts[1].name \in DOMAIN files
    /\ puts[2].name \in DOMAIN files

\* C4: every upload whose filename passes the allow-list is read back
\* through uploaded_file as the bytes that were uploaded.
C4_RoundTrip ==
    \A i \in DOMAIN puts :
        (\E kind \in {"image", "audio", "video"} :
            allowed_file(puts[i].filename, kind))
        => uploaded_file(files, key, puts[i].name) = Response(200, puts[i].data)

-----------------------------------------------------------------------------
(* save_upload called by two request threads at once.  Each test of          *)
(* save_path.exists(), the open(save_path, "wb") that creates or truncates   *)
(* the file, and the write of the ciphertext are separate steps.  MaxFiles   *)
(* bounds the calls made.                                                    *)

\* save_upload, lines 121-126: secure the name, split it, start the counter
PutBegin(p) ==
    \E filename \in {A_PNG, UP_A_PNG, A__PNG}, data \in Payloads, iv \in IVs :
        LET secure == secure_filename(filename)
            parts  == splitext(secure)
        IN  /\ pc[p] = "idle"
            /\ Len(puts) + Cardinality({q \in Procs : pc[q] # "idle"}) < MaxFiles
            /\ secure # <<>>
            /\ loc' = [loc EXCEPT ![p] =
                          [op |-> "save_upload", original |-> filename,
                           filename |-> secure, base |-> parts[1],
                           ext |-> parts[2], counter |-> 1,
                           data |-> data, iv |-> iv]]
            /\ pc' = [pc EXCEPT ![p] = "exists"]
            /\ UNCHANGED <<key, files, catalogVars, txn, last, puts, obs>>

\* save_upload, lines 127-130: one test of the while loop
PutExists(p) ==
    /\ pc[p] = "exists"
    /\ IF Exists(files, loc[p].filename)
       THEN /\ loc' = [loc EXCEPT
                          ![p].filename = loc[p].base \o <<"_">>
                                            \o Str(loc[p].counter) \o loc[p].ext,
                          ![p].counter = loc[p].counter + 1]
            /\ pc' = pc
       ELSE /\ loc' = loc
            /\ pc' = [pc EXCEPT ![p] = "open"]
    /\ UNCHANGED <<key, files, catalogVars, txn, last, puts, obs>>

\* save_upload, line 134: open(save_path, "wb") creates or truncates
PutOpen(p) ==
    /\ pc[p] = "open"
    /\ files' = WriteFile(files, Locate(loc[p].filename).path, <<>>)
    /\ pc' = [pc EXCEPT ![p] = "write"]
    /\ UNCHANGED <<key, catalogVars, loc, txn, last, puts, obs>>

\* save_upload, lines 135-137: the ciphertext is written and the name returned
PutWrite(p) ==
    /\ pc[p] = "write"
    /\ files' = WriteFile(files, Locate(loc[p].filename).path,
                          Encrypt(key, loc[p].iv, loc[p].data))
    /\ puts' = Append(puts, [filename |-> loc[p].original,
                             name |-> loc[p].filename, data |-> loc[p].data])
    /\ last' = [op |-> "save_upload", saved |-> TRUE]
    /\ pc' = [pc EXCEPT ![p] = "idle"]
    /\ loc' = [loc EXCEPT ![p] = NoLoc]
    /\ UNCHANGED <<key, catalogVars, txn, obs>>

NextRace ==
    \E p \in Procs : PutBegin(p) \/ PutExists(p) \/ PutOpen(p) \/ PutWrite(p)

SpecRace == Init /\ [][NextRace]_vars

\* C1: whatever the interleaving of two save_upload calls, the calls that have
\* returned hold pairwise different stored names, and the file under each
\* returned name decrypts to the bytes of that call.
C1_ConcurrentPutsKeepApart ==
    /\ \A i, j \in DOMAIN puts : i # j => puts[i].name # puts[j].name
    /\ \A i \in DOMAIN puts : Decrypt(key, files[puts[i].name]) = puts[i].data

-----------------------------------------------------------------------------
(* The catalog: the SQL statements the handlers execute, on a database d *)

\* PR_ADMIN_PIN
ADMIN_PIN == "pin"

\* a check that lets every request pass
check_pin_Open(pin) == TRUE

check_pin(pin) == pin = ADMIN_PIN

\* an id field that is absent, empty or None
NoId == 0

\* the ids of table t a statement on t addresses: all of them, or for tracks
\* (WHERE album_id = ?) those of one album
InScope(d, t, album_id) ==
    { i \in DOMAIN d[t] : t = "tracks" => d[t][i].album_id = album_id }

\* SELECT COALESCE(MAX(position), -1) + 1 FROM t [WHERE album_id = ?]
SelectNextPos(d, t, album_id) ==
    LET ids == InScope(d, t, album_id)
    IN  IF ids = {} THEN 0 ELSE Max({ d[t][i].position : i \in ids }) + 1

\* cur.lastrowid after an INSERT INTO t
LastRowId(d, t) == d.sqlite_sequence[t]

\* INSERT INTO t (...) VALUES (...)
InsertRow(d, t, row) ==
    LET id == d.sqlite_sequence[t] + 1
    IN  [d EXCEPT ![t] = [i \in DOMAIN d[t] \cup {id} |->
                             IF i = id THEN row ELSE d[t][i]],
                  !.sqlite_sequence[t] = id]

\* DELETE FROM t WHERE id IN ids
DeleteRows(d, t, ids) == [d EXCEPT ![t] = [i \in DOMAIN d[t] \ ids |-> d[t][i]]]

\* api_reorder numbering the positions from 1
RECURSIVE ReorderFrom_OneBased(_, _, _, _, _)
ReorderFrom_OneBased(d, t, order, album_id, pos) ==
    IF pos > Len(order) THEN d
    ELSE LET id  == order[pos]
             hit == id \in DOMAIN d[t] /\ (t = "tracks" => d[t][id].album_id = album_id)
         IN  ReorderFrom_OneBased(IF hit THEN [d EXCEPT ![t][id].position = pos] ELSE d,
                                  t, order, album_id, pos + 1)

\* api_reorder without "AND album_id = ?"
RECURSIVE ReorderFrom_AnyAlbum(_, _, _, _, _)
ReorderFrom_AnyAlbum(d, t, order, album_id, pos) ==
    IF pos > Len(order) THEN d
    ELSE LET id == order[pos]
         IN  ReorderFrom_AnyAlbum(
                 IF id \in DOMAIN d[t] THEN [d EXCEPT ![t][id].position = pos - 1] ELSE d,
                 t, order, album_id, pos + 1)

\* the UPDATE statements of api_reorder, from index pos of order on:
\* UPDATE t SET position = ? WHERE id = ? [AND album_id = ?]
RECURSIVE ReorderFrom(_, _, _, _, _)
ReorderFrom(d, t, order, album_id, pos) ==
    IF pos > Len(order) THEN d
    ELSE LET id  == order[pos]
             hit == id \in InScope(d, t, album_id)
         IN  ReorderFrom(IF hit THEN [d EXCEPT ![t][id].position = pos - 1] ELSE d,
                         t, order, album_id, pos + 1)

\* title.strip()
StripWs(s) == Strip(s, {" "})

\* f.filename.rsplit(".", 1)[0]
RSplitHead(s) ==
    IF Positions(s, ".") = {} THEN s ELSE Slice(s, 1, Max(Positions(s, ".")) - 1)

\* a file part of a request; a part that is missing or has no filename is falsy
NoUpload == [present |-> FALSE, filename |-> <<>>, data |-> <<>>]
Upload(filename, data) == [present |-> TRUE, filename |-> filename, data |-> data]
HasUpload(f) == f.present /\ f.filename # <<>>

\* delete_file_if_exists for each name of a set
RECURSIVE DeleteFiles(_, _)
DeleteFiles(fs, names) ==
    IF names = {} THEN fs
    ELSE LET n == CHOOSE x \in names : TRUE
         IN  DeleteFiles(delete_file_if_exists(fs, n), names \ {n})

\* the response of a handler
Reply(op, status) == last' = [op |-> op, status |-> status]

-----------------------------------------------------------------------------
(* The handlers, each run from its first statement to its commit without    *)
(* another request in between                                               *)

api_upload(pin, f, kind, iv) ==
    LET saved == save_upload(files, key, f.filename, f.data, iv)
    IN  /\ UNCHANGED <<key, threadVars, puts>>
        /\ IF ~check_pin(pin)
           THEN Reply("api_upload", 401) /\ UNCHANGED <<files, db>>
           ELSE IF ~f.present \/ f.filename = <<>> \/ ~allowed_file(f.filename, kind)
           THEN Reply("api_upload", 400) /\ UNCHANGED <<files, db>>
           ELSE IF ~Truthy(saved.name)
           THEN Reply("api_upload", 500) /\ UNCHANGED <<files, db>>
           ELSE /\ files' = saved.fs
                /\ db' = InsertRow(db, "media",
                            [title |-> f.filename, file_path |-> saved.name,
                             kind |-> kind, position |-> 0])
                /\ Reply("api_upload", 200)

api_add_album(pin, title, description, image, iv) ==
    LET store == HasUpload(image) /\ allowed_file(image.filename, "image")
        saved == save_upload(files, key, image.filename, image.data, iv)
        cover == IF store THEN saved.name ELSE <<>>
    IN  /\ UNCHANGED <<key, threadVars, puts>>
        /\ IF ~check_pin(pin)
           THEN Reply("api_add_album", 401) /\ UNCHANGED <<files, db>>
           ELSE /\ files' = IF store THEN saved.fs ELSE files
                /\ IF StripWs(title) = <<>>
                   THEN Reply("api_add_album", 400) /\ UNCHANGED db
                   ELSE /\ db' = InsertRow(db, "albums",
                                    [title |-> StripWs(title),
                                     description |-> StripWs(description),
                                     cover_path |-> cover,
                                     position |-> SelectNextPos(db, "albums", NoId)])
                        /\ Reply("api_add_album", 200)

api_add_track(pin, album_id, title, file) ==
    /\ UNCHANGED <<key, files, threadVars, puts>>
    /\ IF ~check_pin(pin)
       THEN Reply("api_add_track", 401) /\ UNCHANGED db
       ELSE IF album_id = NoId \/ StripWs(title) = <<>> \/ StripWs(file) = <<>>
       THEN Reply("api_add_track", 400) /\ UNCHANGED db
       ELSE /\ db' = InsertRow(db, "tracks",
                        [album_id |-> album_id, title |-> StripWs(title),
                         file_path |-> StripWs(file),
                         position |-> SelectNextPos(db, "tracks", album_id)])
            /\ Reply("api_add_track", 200)

api_add_video(pin, title, description, video, thumbnail, iv) ==
    LET store == HasUpload(video) /\ allowed_file(video.filename, "video")
        saved == save_upload(files, key, video.filename, video.data, iv)
        file  == IF store THEN saved.name ELSE <<>>
    IN  /\ UNCHANGED <<key, threadVars, puts>>
        /\ IF ~check_pin(pin)
           THEN Reply("api_add_video", 401) /\ UNCHANGED <<files, db>>
           ELSE /\ files' = IF store THEN saved.fs ELSE files
                /\ IF StripWs(title) = <<>> \/ ~Truthy(file)
                   THEN Reply("api_add_video", 400) /\ UNCHANGED db
                   ELSE /\ db' = InsertRow(db, "videos",
                                    [title |-> StripWs(title), file_path |-> file,
                                     thumbnail_path |-> StripWs(thumbnail),
                                     description |-> StripWs(description),
                                     position |-> SelectNextPos(db, "videos", NoId)])
                        /\ Reply("api_add_video", 200)

api_reorder(pin, typ, order, album_id) ==
    /\ UNCHANGED <<key, files, threadVars, puts>>
    /\ IF ~check_pin(pin)
       THEN Reply("api_reorder", 401) /\ UNCHANGED db
       ELSE IF typ \notin Tables \/ (typ = "tracks" /\ album_id = NoId)
       THEN Reply("api_reorder", 400) /\ UNCHANGED db
       ELSE /\ db' = ReorderFrom(db, typ, order, album_id, 1)
            /\ Reply("api_reorder", 200)

\* the stored names api_delete hands to delete_file_if_exists
OwnedNames(d, typ, id) ==
    CASE typ = "album" ->
            (IF id \in DOMAIN d.albums THEN {d.albums[id].cover_path} ELSE {})
            \cup { d.tracks[i].file_path : i \in InScope(d, "tracks", id) }
      [] typ = "track" ->
            IF id \in DOMAIN d.tracks THEN {d.tracks[id].file_path} ELSE {}
      [] typ = "video" ->
            IF id \in DOMAIN d.videos
            THEN {d.videos[id].file_path, d.videos[id].thumbnail_path} ELSE {}
      [] typ = "media" ->
            IF id \in DOMAIN d.media THEN {d.media[id].file_path} ELSE {}
      [] OTHER -> {}

\* the DELETE statements of api_delete
DeleteCascade(d, typ, id) ==
    CASE typ = "album" ->
            DeleteRows(DeleteRows(d, "tracks", InScope(d, "tracks", id)),
                       "albums", {id})
      [] typ = "track" -> DeleteRows(d, "tracks", {id})
      [] typ = "video" -> DeleteRows(d, "videos", {id})
      [] typ = "media" -> DeleteRows(d, "media", {id})
      [] typ = "layout" -> DeleteRows(d, "homepage_layout", {id})
      [] OTHER -> d

DeleteTypes == {"album", "track", "video", "media", "layout"}

api_delete(pin, typ, item_id) ==
    /\ UNCHANGED <<key, threadVars, puts>>
    /\ IF ~check_pin(pin)
       THEN Reply("api_delete", 401) /\ UNCHANGED <<files, db>>
       ELSE IF typ = "" \/ item_id = NoId \/ typ \notin DeleteTypes
       THEN Reply("api_delete", 400) /\ UNCHANGED <<files, db>>
       ELSE /\ files' = DeleteFiles(files, OwnedNames(db, typ, item_id))
            /\ db' = DeleteCascade(db, typ, item_id)
            /\ Reply("api_delete", 200)

api_update_album(pin, album_id, title, description, image, iv) ==
    LET store == HasUpload(image) /\ allowed_file(image.filename, "image")
        saved == save_upload(files, key, image.filename, image.data, iv)
    IN  /\ UNCHANGED <<key, threadVars, puts>>
        /\ IF ~check_pin(pin)
           THEN Reply("api_update_album", 401) /\ UNCHANGED <<files, db>>
           ELSE IF album_id = NoId \/ StripWs(title) = <<>>
           THEN Reply("api_update_album", 400) /\ UNCHANGED <<files, db>>
           ELSE /\ files' = IF store THEN saved.fs ELSE files
                /\ db' = IF album_id \notin DOMAIN db.albums THEN db
                         ELSE [db EXCEPT
                                 !.albums[album_id].title = StripWs(title),
                                 !.albums[album_id].description = StripWs(description),
                                 !.albums[album_id].cover_path =
                                     IF store THEN saved.name ELSE @]
                /\ Reply("api_update_album", 200)

api_update_video(pin, video_id, title, description, thumbnail, video, iv) ==
    LET saved == save_upload(files, key, video.filename, video.data, iv)
    IN  /\ UNCHANGED <<key, threadVars, puts>>
        /\ IF ~check_pin(pin)
           THEN Reply("api_update_video", 401) /\ UNCHANGED <<files, db>>
           ELSE IF video_id = NoId \/ StripWs(title) = <<>>
                   \/ (HasUpload(video) /\ ~allowed_file(video.filename, "video"))
           THEN Reply("api_update_video", 400) /\ UNCHANGED <<files, db>>
           ELSE IF video_id \notin DOMAIN db.videos
           THEN Reply("api_update_video", 404) /\ UNCHANGED <<files, db>>
           ELSE /\ files' = IF HasUpload(video) THEN saved.fs ELSE files
                /\ db' = [db EXCEPT
                            !.videos[video_id].title = StripWs(title),
                            !.videos[video_id].description = StripWs(description),
                            !.videos[video_id].thumbnail_path = StripWs(thumbnail),
                            !.videos[video_id].file_path =
                                IF HasUpload(video) THEN saved.name ELSE @]
                /\ Reply("api_update_video", 200)

api_add_layout_block(pin, block_type, ref_id) ==
    /\ UNCHANGED <<key, files, threadVars, puts>>
    /\ IF ~check_pin(pin)
       THEN Reply("api_add_layout_block", 401) /\ UNCHANGED db
       ELSE /\ db' = InsertRow(db, "homepage_layout",
                        [type |-> block_type, reference_id |-> ref_id,
                         position |-> SelectNextPos(db, "homepage_layout", NoId)])
            /\ Reply("api_add_layout_block", 200)

\* a SELECT that finds no featured entry, whatever the layout holds
FeaturedIds_None(d) == {}

\* SELECT id FROM homepage_layout WHERE type = 'featured_video'
FeaturedIds(d) ==
    { i \in DOMAIN d.homepage_layout : d.homepage_layout[i].type = "featured_video" }

\* fetchone() of that SELECT returns any one of the rows
api_set_featured_video(pin, video_id) ==
    /\ UNCHANGED <<key, files, threadVars, puts>>
    /\ IF ~check_pin(pin)
       THEN Reply("api_set_featured_video", 401) /\ UNCHANGED db
       ELSE IF video_id = NoId
       THEN Reply("api_set_featured_video", 400) /\ UNCHANGED db
       ELSE IF video_id \notin DOMAIN db.videos
       THEN Reply("api_set_featured_video", 404) /\ UNCHANGED db
       ELSE /\ Reply("api_set_featured_video", 200)
            /\ IF FeaturedIds(db) # {}
               THEN \E row \in FeaturedIds(db) :
                       db' = [db EXCEPT !.homepage_layout[row].reference_id = video_id]
               ELSE db' = InsertRow(db, "homepage_layout",
                            [type |-> "featured_video", reference_id |-> video_id,
                             position |-> SelectNextPos(db, "homepage_layout", NoId)])

\* the loop of api_add_album_bundle from index idx (counted from 1) of
\* track_files on: the database and the files after it
RECURSIVE BundleTracks(_, _, _, _, _, _, _)
BundleTracks(d, fs, k, album_id, track_files, idx, iv) ==
    IF idx > Len(track_files) THEN [db |-> d, fs |-> fs]
    ELSE LET f     == track_files[idx]
             saved == save_upload(fs, k, f.filename, f.data, iv)
         IN  IF ~allowed_file(f.filename, "audio")
             THEN BundleTracks(d, fs, k, album_id, track_files, idx + 1, iv)
             ELSE BundleTracks(
                     InsertRow(d, "tracks",
                         [album_id |-> album_id, title |-> RSplitHead(f.filename),
                          file_path |-> saved.name, position |-> idx - 1]),
                     saved.fs, k, album_id, track_files, idx + 1, iv)

api_add_album_bundle(pin, title, description, cover, track_files, iv) ==
    LET store  == HasUpload(cover) /\ allowed_file(cover.filename, "image")
        saved  == save_upload(files, key, cover.filename, cover.data, iv)
        withAlbum == InsertRow(db, "albums",
                        [title |-> StripWs(title),
                         description |-> StripWs(description),
                         cover_path |-> IF store THEN saved.name ELSE <<>>,
                         position |-> SelectNextPos(db, "albums", NoId)])
        done   == BundleTracks(withAlbum, IF store THEN saved.fs ELSE files, key,
                               LastRowId(withAlbum, "albums"), track_files, 1, iv)
    IN  /\ UNCHANGED <<key, threadVars, puts>>
        /\ IF ~check_pin(pin)
           THEN Reply("api_add_album_bundle", 401) /\ UNCHANGED <<files, db>>
           ELSE IF StripWs(title) = <<>> \/ Len(track_files) = 0
           THEN Reply("api_add_album_bundle", 400) /\ UNCHANGED <<files, db>>
           ELSE /\ files' = done.fs
                /\ db' = done.db
                /\ Reply("api_add_album_bundle", 200)

-----------------------------------------------------------------------------
(* The requests of the model *)

Pins == {ADMIN_PIN, "bad"}

Titles == {<<>>, <<"t">>}

A_MP3 == <<"a", ".", "m", "p", "3">>
A_MP4 == <<"a", ".", "m", "p", "4">>

\* rows inserted after init_db
Inserted(d) ==
    d.sqlite_sequence["albums"] + d.sqlite_sequence["tracks"]
        + d.sqlite_sequence["videos"] + d.sqlite_sequence["media"]
        + d.sqlite_sequence["homepage_layout"] - 1

RoomForRow == Inserted(db) < MaxRows
RoomForFile == Cardinality(Uploads(files)) < MaxFiles

\* ids a request on table t may name: those ever handed out there, and one
\* never handed out
IdsOf(t) == 1..(db.sqlite_sequence[t] + 1)

\* the file parts of the model's requests: none, or one small file
Parts(names) == {NoUpload} \cup { Upload(n, <<0>>) : n \in names }

LayoutTypes == {"album", "video", "featured_video", "media", "text"}

\* the id lists of the model's reorder requests on table t: no id twice
RECURSIVE Orders(_, _)
Orders(ids, n) ==
    IF n = 0 THEN {<<>>}
    ELSE LET shorter == Orders(ids, n - 1)
         IN  shorter \cup UNION { { Append(s, x) : x \in ids \ Range(s) } :
                                    s \in shorter }

OrdersOf(t) == Orders(IdsOf(t), MaxOrder)

\* The requests of one kind with their fields drawn from the given sets.  A
\* request that may insert a row or store a file is made only while the
\* catalog and the uploads directory have room.  A run may end with a watched
\* request, whose fields and starting state obs then holds; the other
\* requests leave obs as it is.  Running says that the run has not ended.

Running == obs = NoObs

Unwatched == obs' = obs

Watched(op, args) ==
    obs' = [op |-> op, args |-> args, db |-> db, files |-> files]

Upload_(pins, parts, kinds) ==
    /\ Running
    /\ \E pin \in pins, f \in parts, kind \in kinds :
           /\ RoomForRow /\ RoomForFile
           /\ api_upload(pin, f, kind, 0)
           /\ Unwatched

AddAlbum(pins, titles, images) ==
    /\ Running
    /\ \E pin \in pins, title \in titles, image \in images :
           /\ RoomForRow /\ RoomForFile
           /\ api_add_album(pin, title, <<>>, image, 0)
           /\ Unwatched

AddTrack(pins, album_ids, titles, names) ==
    /\ Running
    /\ \E pin \in pins, album_id \in album_ids, title \in titles, file \in names :
           /\ RoomForRow
           /\ api_add_track(pin, album_id, title, file)
           /\ Unwatched

AddVideo(pins, titles, videos, thumbnails) ==
    /\ Running
    /\ \E pin \in pins, title \in titles, video \in videos, thumbnail \in thumbnails :
           /\ RoomForRow /\ RoomForFile
           /\ api_add_video(pin, title, <<>>, video, thumbnail, 0)
           /\ Unwatched

Reorder(pins, types, album_ids, watch) ==
    /\ Running
    /\ \E pin \in pins, typ \in types, album_id \in album_ids :
           /\ typ # "tracks" => album_id = NoId
           /\ \E order \in (IF typ \in Tables THEN OrdersOf(typ) ELSE {<<>>}) :
                  /\ api_reorder(pin, typ, order, album_id)
                  /\ \E w \in watch :
                         IF w
                         THEN Watched("api_reorder",
                                      [pin |-> pin, typ |-> typ, order |-> order,
                                       album_id |-> album_id])
                         ELSE Unwatched

Delete(pins, types, ids, watch) ==
    /\ Running
    /\ \E pin \in pins, typ \in types, item_id \in ids :
           /\ api_delete(pin, typ, item_id)
           /\ \E w \in watch :
                  IF w
                  THEN Watched("api_delete",
                               [pin |-> pin, typ |-> typ, item_id |-> item_id])
                  ELSE Unwatched

\* GET /uploads/<filename>
Fetch(names, watch) ==
    /\ Running
    /\ \E filename \in names :
           /\ Reply("uploaded_file", uploaded_file(files, key, filename).status)
           /\ UNCHANGED <<key, files, catalogVars, threadVars, puts>>
           /\ \E w \in watch :
                  IF w
                  THEN Watched("uploaded_file", [filename |-> filename])
                  ELSE Unwatched

AddLayoutBlock(pins, types, ref_ids) ==
    /\ Running
    /\ \E pin \in pins, block_type \in types, ref_id \in ref_ids :
           /\ RoomForRow
           /\ api_add_layout_block(pin, block_type, ref_id)
           /\ Unwatched

SetFeaturedVideo(pins, video_ids) ==
    /\ Running
    /\ \E pin \in pins, video_id \in video_ids :
           /\ RoomForRow
           /\ api_set_featured_video(pin, video_id)
           /\ Unwatched

AddAlbumBundle(pins, titles, covers, bundles) ==
    /\ Running
    /\ \E pin \in pins, title \in titles, cover \in covers, track_files \in bundles :
           /\ RoomForRow /\ RoomForFile
           /\ api_add_album_bundle(pin, title, <<>>, cover, track_files, 0)
           /\ Unwatched

\* the track uploads of the model's bundle requests: one audio file, or a
\* file that is no audio file followed by one that is
Bundles ==
    { <<Upload(A_MP3, <<0>>)>>,
      <<Upload(A_PNG, <<0>>), Upload(A_MP3, <<0>>)>> }

-----------------------------------------------------------------------------
(* Inserting and reordering: every insert handler and api_reorder *)

NextOrder ==
    \/ Upload_({ADMIN_PIN}, Parts({A_PNG}), {"image"})
    \/ AddAlbum({ADMIN_PIN}, {<<"t">>}, {NoUpload})
    \/ AddTrack({ADMIN_PIN}, {1, 2}, {<<"t">>}, {A_MP3})
    \/ AddVideo({ADMIN_PIN}, {<<"t">>}, Parts({A_MP4}), {<<>>})
    \/ AddLayoutBlock({ADMIN_PIN}, {"text"}, {NoId})
    \/ SetFeaturedVideo({ADMIN_PIN}, {1})
    \/ AddAlbumBundle({ADMIN_PIN}, {<<"t">>}, {NoUpload}, Bundles)
    \/ Reorder({ADMIN_PIN}, Tables \cup {"x"}, {NoId, 1, 2}, BOOLEAN)

\* the catalog handlers never read the key: one key stands for all
InitCatalog == Init /\ key = 1

SpecOrder == InitCatalog /\ [][NextOrder]_vars

\* the positions a new row of table t may take by "current maximum in scope
\* plus 1, or 0 when the scope is empty", for the scope album_id
ExpectedPosition(d, t, album_id) ==
    LET taken == { d[t][i].position :
                     i \in { j \in DOMAIN d[t] :
                               t = "tracks" => d[t][j].album_id = album_id } }
    IN  IF taken = {} THEN 0 ELSE Max(taken) + 1

\* C5: every row an insert operation adds takes the position "maximum of its
\* scope plus 1, or 0"; rows added to one scope by one operation take
\* consecutive positions in the order they were inserted.
C5_InsertTakesNextPosition ==
    [][\A t \in Tables : \A id \in DOMAIN db'[t] \ DOMAIN db[t] :
          LET row     == db'[t][id]
              scope   == IF t = "tracks" THEN row.album_id ELSE NoId
              earlier == { j \in DOMAIN db'[t] \ DOMAIN db[t] :
                             /\ j < id
                             /\ t = "tracks" => db'[t][j].album_id = row.album_id }
          IN  row.position = ExpectedPosition(db, t, scope) + Cardinality(earlier)
      ]_vars

Injective(s) == \A i, j \in DOMAIN s : i # j => s[i] # s[j]

\* the results SELECT * FROM t [WHERE album_id = ?] ORDER BY position ASC may
\* give, as sequences of ids: rows of equal position come in any order
RECURSIVE Ascending(_, _)
Ascending(rows, ids) ==
    IF ids = {} THEN {<<>>}
    ELSE UNION { { <<x>> \o s : s \in Ascending(rows, ids \ {x}) } :
                   x \in { y \in ids :
                             \A z \in ids : rows[y].position <= rows[z].position } }

ListOrdered(d, t, album_id) == Ascending(d[t], InScope(d, t, album_id))

\* the elements of s that are in S, in their order
Restrict(s, S) == SelectSeq(s, LAMBDA x : x \in S)

\* C7: a reorder with a list of distinct ids that exist in the scope puts the
\* id at index i of the list at position i, and every ordered fetch of the
\* scope then yields the ids of the list in the order of the list.
C7_ReorderYieldsSubmittedOrder ==
    ( /\ obs.op = "api_reorder"
      /\ last.status = 200
      /\ Injective(obs.args.order)
      /\ Range(obs.args.order)
             \subseteq InScope(obs.db, obs.args.typ, obs.args.album_id) )
    => LET order == obs.args.order
           typ   == obs.args.typ
       IN  /\ \A i \in DOMAIN order : db[typ][order[i]].position = i - 1
           /\ \A fetch \in ListOrdered(db, typ, obs.args.album_id) :
                 Restrict(fetch, Range(order)) = order

\* reorder("albums", [3, 1, 2]) has been served
C7_Witness ==
    /\ obs.op = "api_reorder"
    /\ last.status = 200
    /\ obs.args.typ = "albums"
    /\ obs.args.order = <<3, 1, 2>>
    /\ DOMAIN obs.db.albums = {1, 2, 3}

\* C8: a reorder changes no row whose id is not in the list, no track of
\* another album than the one named, and no row of another table; it adds
\* and removes no row.
C8_ReorderFrame ==
    obs.op = "api_reorder"
    => \A t \in Tables :
          /\ DOMAIN db[t] = DOMAIN obs.db[t]
          /\ \A id \in DOMAIN db[t] :
                ( \/ t # obs.args.typ
                  \/ id \notin Range(obs.args.order)
                  \/ (t = "tracks" /\ obs.db[t][id].album_id # obs.args.album_id) )
                => db[t][id] = obs.db[t][id]

\* a reorder of the tracks of album 1 has been served whose list names track
\* 2 of album 2 before track 1 of album 1
C8_Witness ==
    /\ obs.op = "api_reorder"
    /\ last.status = 200
    /\ obs.args.typ = "tracks"
    /\ obs.args.album_id = 1
    /\ obs.args.order = <<2, 1>>
    /\ DOMAIN obs.db.tracks = {1, 2}
    /\ obs.db.tracks[1].album_id = 1
    /\ obs.db.tracks[2].album_id = 2

-----------------------------------------------------------------------------
(* Stored names: the names the catalog rows hold, as GET /uploads/<name> and
   api_delete use them *)

X_UP_A_PNG == <<"x", "/", ".", ".", "/">> \o A_PNG

\* the stored names the rows of d hold
StoredNames(d) ==
    { d.albums[i].cover_path : i \in DOMAIN d.albums }
        \cup { d.tracks[i].file_path : i \in DOMAIN d.tracks }
        \cup { d.videos[i].file_path : i \in DOMAIN d.videos }
        \cup { d.videos[i].thumbnail_path : i \in DOMAIN d.videos }
        \cup { d.media[i].file_path : i \in DOMAIN d.media }

NextNames ==
    \/ Upload_({ADMIN_PIN}, {Upload(A_PNG, <<0>>)}, {"image"})
    \/ AddTrack({ADMIN_PIN}, {1}, {<<"t">>}, {A_MP3, KEY_PATH, X_UP_A_PNG})
    \/ AddVideo({ADMIN_PIN}, {<<"t">>}, {Upload(A_MP4, <<0>>)}, {<<>>, KEY_PATH})
    \/ Fetch(StoredNames(db), BOOLEAN)
    \/ Delete({ADMIN_PIN}, DeleteTypes, {1, 2}, BOOLEAN)

SpecNames == InitCatalog /\ [][NextNames]_vars

\* the name has a parent-directory segment
HasParentSegment(name) == <<".", ".">> \in Range(Split(name, "/"))

\* C2: a stored name with a parent-directory segment is rejected by the get
\* path (the answer is 404) and by the delete path (the file it names stays).
C2_TraversalRejected ==
    /\ ( obs.op = "uploaded_file" /\ HasParentSegment(obs.args.filename) )
       => last.status = 404
    /\ obs.op = "api_delete"
       => \A n \in OwnedNames(obs.db, obs.args.typ, obs.args.item_id) :
             HasParentSegment(n)
             => LET l == Locate(n)
                IN  (l.kind = "file" /\ l.path \in DOMAIN obs.files)
                    => l.path \in DOMAIN files

-----------------------------------------------------------------------------
(* The homepage layout: blocks added, the featured video set, blocks
   reordered and deleted *)

NextLayout ==
    \/ AddVideo({ADMIN_PIN}, {<<"t">>}, {Upload(A_MP4, <<0>>)}, {<<>>})
    \/ AddLayoutBlock({ADMIN_PIN}, {"featured_video", "text"}, {NoId, 1})
    \/ SetFeaturedVideo({ADMIN_PIN}, {1, 2})
    \/ Reorder({ADMIN_PIN}, {"homepage_layout"}, {NoId}, {FALSE})
    \/ Delete({ADMIN_PIN}, {"layout", "video"}, {1, 2}, {FALSE})

SpecLayout == InitCatalog /\ [][NextLayout]_vars

\* C10: the homepage layout never holds two entries of type featured_video.
C10_AtMostOneFeatured == Cardinality(FeaturedIds(db)) <= 1

-----------------------------------------------------------------------------
(* Concurrent requests.  Each request thread p has its own connection
   (get_db opens one per request).  The sqlite3 module opens a transaction
   before the first INSERT or UPDATE of a connection and not before a
   SELECT; the statements of an open transaction change the connection's own
   view, txn[p].view, and db.commit() makes the view the database; closing
   the connection without a commit drops the view.  One connection at a time
   holds the write lock; another one's INSERT or UPDATE waits for it, and
   raises "database is locked" when the wait times out. *)

\* another connection holds the write lock
Locked(p) == \E q \in Procs \ {p} : txn[q].open

\* what a SELECT of connection p reads
View(p) == IF txn[p].open THEN txn[p].view ELSE db

\* the database file after a statement of an open transaction gave view:
\* nothing is written before the commit
AfterStatement_Autocommit(d, view) == view

AfterStatement(d, view) == d

\* an INSERT or UPDATE of connection p giving view
Execute(p, view) ==
    /\ ~Locked(p)
    /\ txn' = [txn EXCEPT ![p] =
                  [open |-> TRUE, view |-> view,
                   base |-> IF txn[p].open THEN txn[p].base ELSE db]]
    /\ db' = AfterStatement(db, view)

\* db.commit() of connection p, and the end of the request
Commit(p, status) ==
    /\ db' = View(p)
    /\ txn' = [txn EXCEPT ![p] = NoTxn]
    /\ pc' = [pc EXCEPT ![p] = "idle"]
    /\ loc' = [loc EXCEPT ![p] = NoLoc]
    /\ Reply(loc[p].op, status)

\* an exception in the handler: the answer is 500 and close_connection
\* closes the connection without a commit
Raise(p) ==
    /\ txn' = [txn EXCEPT ![p] = NoTxn]
    /\ pc' = [pc EXCEPT ![p] = "idle"]
    /\ loc' = [loc EXCEPT ![p] = NoLoc]
    /\ Reply(loc[p].op, 500)
    /\ UNCHANGED db

otherVars == <<key, files, puts, obs>>

\* the handlers that insert one row at the next position of its scope
AddOps == {"api_add_album", "api_add_track", "api_add_layout_block"}

TableOf(op) ==
    CASE op = "api_add_album" -> "albums"
      [] op = "api_add_track" -> "tracks"
      [] op = "api_add_layout_block" -> "homepage_layout"

RowOf(op, album_id, pos) ==
    CASE op = "api_add_album" ->
            [title |-> <<"t">>, description |-> <<>>, cover_path |-> <<>>,
             position |-> pos]
      [] op = "api_add_track" ->
            [album_id |-> album_id, title |-> <<"t">>, file_path |-> A_MP3,
             position |-> pos]
      [] op = "api_add_layout_block" ->
            [type |-> "text", reference_id |-> NoId, position |-> pos]

\* the request passes the checks before get_db()
add_begin(p, op, album_id) ==
    /\ pc[p] = "idle"
    /\ Inserted(db) + Cardinality({q \in Procs : loc[q].op \in AddOps}) < MaxRows
    /\ pc' = [pc EXCEPT ![p] = "add_select"]
    /\ loc' = [loc EXCEPT ![p] = [op |-> op, album_id |-> album_id]]
    /\ UNCHANGED <<db, txn, last, otherVars>>

\* SELECT COALESCE(MAX(position), -1) + 1 ...; pos = cur.fetchone()["pos"]
add_select(p) ==
    /\ pc[p] = "add_select"
    /\ pc' = [pc EXCEPT ![p] = "add_insert"]
    /\ loc' = [loc EXCEPT ![p] =
                  [op |-> loc[p].op, album_id |-> loc[p].album_id,
                   pos |-> SelectNextPos(View(p), TableOf(loc[p].op),
                                         loc[p].album_id)]]
    /\ UNCHANGED <<db, txn, last, otherVars>>

\* INSERT INTO ... VALUES (..., pos, now)
add_insert(p) ==
    /\ pc[p] = "add_insert"
    /\ Execute(p, InsertRow(View(p), TableOf(loc[p].op),
                            RowOf(loc[p].op, loc[p].album_id, loc[p].pos)))
    /\ pc' = [pc EXCEPT ![p] = "add_commit"]
    /\ UNCHANGED <<loc, last, otherVars>>

\* the INSERT raises "database is locked"
add_locked(p) ==
    /\ pc[p] = "add_insert"
    /\ Locked(p)
    /\ Raise(p)
    /\ UNCHANGED otherVars

\* db.commit()
add_commit(p) ==
    /\ pc[p] = "add_commit"
    /\ Commit(p, 200)
    /\ UNCHANGED otherVars

Add(p, ops, album_ids) ==
    \/ \E op \in ops, album_id \in album_ids :
          /\ op = "api_add_track" <=> album_id # NoId
          /\ add_begin(p, op, album_id)
    \/ add_select(p)
    \/ add_insert(p)
    \/ add_locked(p)
    \/ add_commit(p)

NextInserts == \E p \in Procs : Add(p, AddOps, {NoId, 1})

SpecInserts == InitCatalog /\ [][NextInserts]_vars

\* C6: with concurrent inserts and no reorder, no two rows of a scope have
\* the same position.
C6_ConcurrentInsertsKeepPositionsApart ==
    \A t \in Tables : \A i, j \in DOMAIN db[t] :
        ( /\ i # j
          /\ t = "tracks" => db[t][i].album_id = db[t][j].album_id )
        => db[t][i].position # db[t][j].position

-----------------------------------------------------------------------------
(* Concurrent reorders, with ordered fetches and inserts in between *)

\* an item of the order list that sqlite3 cannot bind as a parameter (a
\* nested list, an object): the UPDATE raises
Unbindable == -1

\* the request passes the checks of api_reorder
reorder_begin(p, typ, order, album_id) ==
    /\ pc[p] = "idle"
    /\ typ \in Tables
    /\ typ = "tracks" => album_id # NoId
    /\ pc' = [pc EXCEPT ![p] = "reorder_update"]
    /\ loc' = [loc EXCEPT ![p] =
                  [op |-> "api_reorder", typ |-> typ, order |-> order,
                   album_id |-> album_id, pos |-> 1]]
    /\ UNCHANGED <<db, txn, last, otherVars>>

\* one turn of the loop: UPDATE t SET position = ? WHERE id = ? [AND ...]
reorder_update(p) ==
    /\ pc[p] = "reorder_update"
    /\ loc[p].pos <= Len(loc[p].order)
    /\ loc[p].order[loc[p].pos] # Unbindable
    /\ Execute(p, ReorderFrom(View(p), loc[p].typ,
                              SubSeq(loc[p].order, 1, loc[p].pos),
                              loc[p].album_id, loc[p].pos))
    /\ loc' = [loc EXCEPT ![p].pos = @ + 1]
    /\ UNCHANGED <<pc, last, otherVars>>

\* the UPDATE raises: the item cannot be bound, or the database is locked
reorder_raise(p) ==
    /\ pc[p] = "reorder_update"
    /\ loc[p].pos <= Len(loc[p].order)
    /\ loc[p].order[loc[p].pos] = Unbindable \/ Locked(p)
    /\ Raise(p)
    /\ UNCHANGED otherVars

\* db.commit() after the loop
reorder_commit(p) ==
    /\ pc[p] = "reorder_update"
    /\ loc[p].pos > Len(loc[p].order)
    /\ Commit(p, 200)
    /\ UNCHANGED otherVars

\* the positions of the rows of table t of d, by id
PositionsOf(d, t) == [i \in DOMAIN d[t] |-> d[t][i].position]

\* SELECT * FROM t ORDER BY position ASC of a request of its own; during
\* names the connections whose transaction was open then
list_ordered(t) ==
    /\ last' = [op |-> "list_ordered", status |-> 200,
                rows |-> PositionsOf(db, t),
                during |-> { p \in Procs : txn[p].open }]
    /\ UNCHANGED <<db, pc, loc, txn, otherVars>>

RaceOrders == { <<2, 1>>, <<1, 2>>, <<2, Unbindable, 1>>, <<3, 1, 2>> }

NextReorders ==
    \/ \E p \in Procs : Add(p, {"api_add_album"}, {NoId})
    \/ \E p \in Procs, order \in RaceOrders :
          reorder_begin(p, "albums", order, NoId)
    \/ \E p \in Procs : reorder_update(p)
    \/ \E p \in Procs : reorder_raise(p)
    \/ \E p \in Procs : reorder_commit(p)
    \/ list_ordered("albums")

SpecReorders == InitCatalog /\ [][NextReorders]_vars

\* C9: the database changes only by the commit of a whole request: by all
\* the updates of one reorder at once, or by one insert; what an ordered
\* fetch sees while a transaction is open is what was there when the
\* transaction began; a request that raises changes nothing.
C9_ReorderAtomic ==
    [][ /\ db' # db
           => \E p \in Procs :
                 /\ pc[p] # "idle" /\ pc'[p] = "idle" /\ last'.status = 200
                 /\ \/ /\ loc[p].op = "api_reorder"
                       /\ db' = ReorderFrom(db, loc[p].typ, loc[p].order,
                                            loc[p].album_id, 1)
                    \/ /\ loc[p].op \in AddOps
                       /\ pc[p] = "add_commit"
        /\ (last'.op = "list_ordered" /\ last' # last)
           => \A p \in last'.during :
                 last'.rows = PositionsOf(txn[p].base, "albums")
        /\ \A p \in Procs :
              (pc[p] # "idle" /\ pc'[p] = "idle" /\ last'.status = 500)
              => db' = db
      ]_vars

\* an ordered fetch has run after the first of the updates of a reorder still
\* under way, and has not seen it
C9_Witness ==
    \E p \in Procs :
        /\ last.op = "list_ordered"
        /\ p \in last.during
        /\ pc[p] = "reorder_update"
        /\ loc[p].pos = 2
        /\ Len(loc[p].order) >= 2
        /\ last.rows # PositionsOf(txn[p].view, "albums")

-----------------------------------------------------------------------------
(* The featured video: api_set_featured_video once and twice in a row, on
   layouts with and without blocks *)

RoomForBlock == db.sqlite_sequence["homepage_layout"] < MaxRows

AddBlock(pins, types, ref_ids) ==
    /\ Running
    /\ RoomForBlock
    /\ \E pin \in pins, block_type \in types, ref_id \in ref_ids :
           /\ api_add_layout_block(pin, block_type, ref_id)
           /\ Unwatched

SetFeatured(pins, video_ids, watch) ==
    /\ Running
    /\ RoomForBlock
    /\ \E pin \in pins, video_id \in video_ids :
           /\ api_set_featured_video(pin, video_id)
           /\ \E w \in watch :
                  IF w
                  THEN Watched("api_set_featured_video",
                               [pin |-> pin, video_id |-> video_id])
                  ELSE Unwatched

\* the request that follows a watched api_set_featured_video at once
SetFeaturedAgain(pins, video_ids) ==
    /\ obs.op = "api_set_featured_video"
    /\ \E pin \in pins, video_id \in video_ids :
           /\ api_set_featured_video(pin, video_id)
           /\ obs' = [op |-> "api_set_featured_video twice", first |-> obs,
                      status |-> last.status,
                      args |-> [pin |-> pin, video_id |-> video_id],
                      db |-> db, files |-> files]

NextFeatured ==
    \/ AddVideo({ADMIN_PIN}, {<<"t">>}, {Upload(A_MP4, <<0>>)}, {<<>>})
    \/ AddBlock({ADMIN_PIN}, {"text", "featured_video"}, {NoId})
    \/ Delete({ADMIN_PIN}, {"layout", "video"}, {1, 2}, {FALSE})
    \/ SetFeatured({ADMIN_PIN}, {1, 2, 3}, BOOLEAN)
    \/ SetFeaturedAgain({ADMIN_PIN}, {1, 2, 3})

SpecFeatured == InitCatalog /\ [][NextFeatured]_vars

-----------------------------------------------------------------------------
(* Deleting an album: api_delete on catalogs with covers, bundles and tracks
   attached by name *)

NextCascade ==
    \/ Upload_({ADMIN_PIN}, {Upload(A_MP3, <<0>>)}, {"audio"})
    \/ AddAlbum({ADMIN_PIN}, {<<"t">>}, Parts({A_PNG}))
    \/ AddTrack({ADMIN_PIN}, {1, 2}, {<<"t">>}, {A_MP3, A_PNG})
    \/ AddAlbumBundle({ADMIN_PIN}, {<<"t">>}, {NoUpload}, {<<Upload(A_MP3, <<0>>)>>})
    \/ Delete({ADMIN_PIN}, {"album", "track"}, {1, 2}, BOOLEAN)

SpecCascade == InitCatalog /\ [][NextCascade]_vars

\* what the uploads directory holds under a stored name
FileAt(fs, filename) ==
    LET l == Locate(filename)
    IN  IF l.kind = "file" /\ l.path \in DOMAIN fs
        THEN [exists |-> TRUE, bytes |-> fs[l.path]]
        ELSE [exists |-> FALSE, bytes |-> <<>>]

\* the names the rows of the albums other than album_id hold
NamesOfOthers(d, album_id) ==
    { d.albums[i].cover_path : i \in DOMAIN d.albums \ {album_id} }
        \cup { d.tracks[i].file_path :
                  i \in { j \in DOMAIN d.tracks : d.tracks[j].album_id # album_id } }

\* a served delete of an album has been watched
AlbumDeleted ==
    /\ obs.op = "api_delete"
    /\ obs.args.typ = "album"
    /\ last.status = 200

\* C12 (a): a served delete of an album leaves no row of the album, no track
\* row of it, an empty ordered track list, and no file under the cover's name
\* or a track's name.
C12_AlbumAndTracksGone ==
    AlbumDeleted =>
        /\ obs.args.item_id \notin DOMAIN db.albums
        /\ InScope(db, "tracks", obs.args.item_id) = {}
        /\ ListOrdered(db, "tracks", obs.args.item_id) = {<<>>}
        /\ \A n \in OwnedNames(obs.db, "album", obs.args.item_id) :
              Truthy(n) => ~FileAt(files, n).exists

\* C12 (b): a served delete of an album leaves the rows of the other albums,
\* their tracks and the files those rows name as they were.
C12_OtherAlbumsUntouched ==
    AlbumDeleted =>
        /\ \A i \in DOMAIN obs.db.albums \ {obs.args.item_id} :
              i \in DOMAIN db.albums /\ db.albums[i] = obs.db.albums[i]
        /\ \A i \in DOMAIN obs.db.tracks :
              obs.db.tracks[i].album_id # obs.args.item_id
                  => i \in DOMAIN db.tracks /\ db.tracks[i] = obs.db.tracks[i]
        /\ \A n \in NamesOfOthers(obs.db, obs.args.item_id) :
              FileAt(files, n) = FileAt(obs.files, n)

\* C12: deleting an album removes the album, its tracks, their files and the
\* cover, and leaves the tracks and files of other albums unchanged.
C12_DeleteAlbumCascades == C12_AlbumAndTracksGone /\ C12_OtherAlbumsUntouched

-----------------------------------------------------------------------------
(* Refused requests: the insert handlers with fields that are missing *)

MaybeTitles == {<<>>, <<" ">>, <<"t">>}

NextValidate ==
    \/ AddAlbum({ADMIN_PIN}, MaybeTitles, Parts({A_PNG}))
    \/ AddVideo({ADMIN_PIN}, MaybeTitles, Parts({A_MP4, A_PNG}), {<<>>})
    \/ AddTrack({ADMIN_PIN}, {NoId, 1}, MaybeTitles, {<<>>, A_MP3})
    \/ AddAlbumBundle({ADMIN_PIN}, MaybeTitles, Parts({A_PNG}),
                      {<<>>, <<Upload(A_MP3, <<0>>)>>})

SpecValidate == InitCatalog /\ [][NextValidate]_vars

InsertOps ==
    {"api_add_album", "api_add_video", "api_add_track", "api_add_album_bundle"}

\* C13: a request of add_album, add_video, add_track or add_album_bundle that
\* is refused for a missing field leaves the catalog rows and the stored files
\* exactly as they were.
C13_ValidationBeforeEffects ==
    [][ (last'.op \in InsertOps /\ last'.status = 400)
            => (db' = db /\ files' = files) ]_vars

-----------------------------------------------------------------------------
(* save_upload raising (the disk is full, the file cannot be opened or read)
   in the handlers that store an upload.  The exception ends the request with
   500, and close_connection closes the connection without a commit. *)

\* the files a save_upload that raises may leave: those before (read, encrypt
\* or open raised), or those with the file opened and nothing written
SaveFailures(fs, filename) ==
    LET name == StoredName(fs, filename)
    IN  IF name = None THEN {fs}
        ELSE {fs, WriteFile(fs, Locate(name).path, <<>>)}

api_add_album_raises(pin, title, image) ==
    /\ check_pin(pin)
    /\ HasUpload(image) /\ allowed_file(image.filename, "image")
    /\ files' \in SaveFailures(files, image.filename)
    /\ Reply("api_add_album", 500)
    /\ UNCHANGED <<key, db, threadVars, puts>>

api_add_video_raises(pin, title, video) ==
    /\ check_pin(pin)
    /\ HasUpload(video) /\ allowed_file(video.filename, "video")
    /\ files' \in SaveFailures(files, video.filename)
    /\ Reply("api_add_video", 500)
    /\ UNCHANGED <<key, db, threadVars, puts>>

api_update_album_raises(pin, album_id, title, image) ==
    /\ check_pin(pin)
    /\ album_id # NoId /\ StripWs(title) # <<>>
    /\ HasUpload(image) /\ allowed_file(image.filename, "image")
    /\ files' \in SaveFailures(files, image.filename)
    /\ Reply("api_update_album", 500)
    /\ UNCHANGED <<key, db, threadVars, puts>>

api_update_video_raises(pin, video_id, title, video) ==
    /\ check_pin(pin)
    /\ video_id # NoId /\ StripWs(title) # <<>>
    /\ HasUpload(video) /\ allowed_file(video.filename, "video")
    /\ video_id \in DOMAIN db.videos
    /\ files' \in SaveFailures(files, video.filename)
    /\ Reply("api_update_video", 500)
    /\ UNCHANGED <<key, db, threadVars, puts>>

\* save_upload raises on the cover (failing = 0) or on track_files[failing],
\* after the album row and the rows of the tracks before it were inserted
api_add_album_bundle_raises(pin, title, description, cover, track_files, failing, iv) ==
    LET store  == HasUpload(cover) /\ allowed_file(cover.filename, "image")
        saved  == save_upload(files, key, cover.filename, cover.data, iv)
        withAlbum == InsertRow(db, "albums",
                        [title |-> StripWs(title),
                         description |-> StripWs(description),
                         cover_path |-> IF store THEN saved.name ELSE <<>>,
                         position |-> SelectNextPos(db, "albums", NoId)])
        before == BundleTracks(withAlbum, IF store THEN saved.fs ELSE files, key,
                               LastRowId(withAlbum, "albums"),
                               SubSeq(track_files, 1, failing - 1), 1, iv)
    IN  /\ check_pin(pin)
        /\ StripWs(title) # <<>> /\ Len(track_files) # 0
        /\ IF failing = 0
           THEN /\ store
                /\ files' \in SaveFailures(files, cover.filename)
                /\ UNCHANGED db
           ELSE /\ allowed_file(track_files[failing].filename, "audio")
                /\ files' \in SaveFailures(before.fs, track_files[failing].filename)
                /\ db' = AfterStatement(db, before.db)
        /\ Reply("api_add_album_bundle", 500)
        /\ UNCHANGED <<key, threadVars, puts>>

UpdateAlbum(pins, album_ids, titles, images) ==
    /\ Running
    /\ \E pin \in pins, album_id \in album_ids, title \in titles, image \in images :
           /\ RoomForFile
           /\ api_update_album(pin, album_id, title, <<>>, image, 0)
           /\ Unwatched

UpdateVideo(pins, video_ids, titles, videos) ==
    /\ Running
    /\ \E pin \in pins, video_id \in video_ids, title \in titles, video \in videos :
           /\ RoomForFile
           /\ api_update_video(pin, video_id, title, <<>>, <<>>, video, 0)
           /\ Unwatched

AddAlbumRaises(pins, titles, images) ==
    /\ Running
    /\ \E pin \in pins, title \in titles, image \in images :
           /\ RoomForRow /\ RoomForFile
           /\ api_add_album_raises(pin, title, image)
           /\ Unwatched

AddVideoRaises(pins, titles, videos) ==
    /\ Running
    /\ \E pin \in pins, title \in titles, video \in videos :
           /\ RoomForRow /\ RoomForFile
           /\ api_add_video_raises(pin, title, video)
           /\ Unwatched

UpdateAlbumRaises(pins, album_ids, titles, images) ==
    /\ Running
    /\ \E pin \in pins, album_id \in album_ids, title \in titles, image \in images :
           /\ RoomForFile
           /\ api_update_album_raises(pin, album_id, title, image)
           /\ Unwatched

UpdateVideoRaises(pins, video_ids, titles, videos) ==
    /\ Running
    /\ \E pin \in pins, video_id \in video_ids, title \in titles, video \in videos :
           /\ RoomForFile
           /\ api_update_video_raises(pin, video_id, title, video)
           /\ Unwatched

AddAlbumBundleRaises(pins, titles, covers, bundles) ==
    /\ Running
    /\ \E pin \in pins, title \in titles, cover \in covers, track_files \in bundles :
           /\ RoomForRow /\ RoomForFile
           /\ \E failing \in 0..Len(track_files) :
                  api_add_album_bundle_raises(pin, title, <<>>, cover, track_files,
                                              failing, 0)
           /\ Unwatched

_PNG == <<".", "p", "n", "g">>

\* bundles of one and of two audio files
TwoTracks ==
    { <<Upload(A_MP3, <<0>>)>>, <<Upload(A_MP3, <<0>>), Upload(A_MP3, <<0>>)>> }

NextFailures ==
    \/ AddAlbum({ADMIN_PIN}, {<<"t">>}, Parts({A_PNG, _PNG}))
    \/ AddVideo({ADMIN_PIN}, {<<"t">>}, Parts({A_MP4}), {<<>>})
    \/ UpdateAlbum({ADMIN_PIN}, {1}, {<<"u">>}, Parts({A_PNG}))
    \/ UpdateVideo({ADMIN_PIN}, {1}, {<<"u">>}, Parts({A_MP4}))
    \/ AddAlbumBundle({ADMIN_PIN}, {<<"t">>}, Parts({A_PNG}), TwoTracks)
    \/ AddAlbumRaises({ADMIN_PIN}, {<<"t">>}, Parts({A_PNG}))
    \/ AddVideoRaises({ADMIN_PIN}, {<<"t">>}, Parts({A_MP4}))
    \/ UpdateAlbumRaises({ADMIN_PIN}, {1}, {<<"u">>}, Parts({A_PNG}))
    \/ UpdateVideoRaises({ADMIN_PIN}, {1}, {<<"u">>}, Parts({A_MP4}))
    \/ AddAlbumBundleRaises({ADMIN_PIN}, {<<"t">>}, Parts({A_PNG}), TwoTracks)

SpecFailures == InitCatalog /\ [][NextFailures]_vars

SaveOps ==
    {"api_add_album", "api_add_video", "api_update_album", "api_update_video",
     "api_add_album_bundle"}

\* C14: a request of add_album, add_video, update_album, update_video or
\* add_album_bundle in which save_upload raises is answered 500 and leaves
\* every catalog row as it was: no row is inserted or updated, no album row of
\* the bundle stays, and no row comes to hold a name that was not stored.  No
\* row holds the "no name" of save_upload either.
C14_FailedSaveLeavesCatalog ==
    [][ /\ (last'.op \in SaveOps /\ last'.status = 500) => db' = db
        /\ None \notin StoredNames(db') ]_vars

\* the second track of a bundle could not be stored: the cover and the first
\* track are in the uploads directory, the request was answered 500
C14_Witness ==
    /\ last = [op |-> "api_add_album_bundle", status |-> 500]
    /\ Cardinality(Uploads(files)) = 3

-----------------------------------------------------------------------------
(* Reading back files that cannot be decrypted: files save_upload left
   unwritten, and files encrypted under a key that a restart has replaced *)

\* the process starts again (app.py:32-40): the key is read from the key
\* file, or generated and written when the file is not there
Restart ==
    /\ IF KEY_PATH \in DOMAIN files
       THEN key' = files[KEY_PATH][1] /\ files' = files
       ELSE \E k \in Keys : key' = k /\ files' = WriteFile(files, KEY_PATH, <<k>>)
    /\ last' = [op |-> "restart"]
    /\ UNCHANGED <<catalogVars, threadVars, puts, obs>>

\* one call of save_upload that raises
BlobPutRaises ==
    \E filename \in UploadNames :
        /\ Cardinality(Uploads(files)) < MaxFiles
        /\ files' \in SaveFailures(files, filename)
        /\ last' = [op |-> "save_upload", saved |-> FALSE]
        /\ UNCHANGED <<key, catalogVars, threadVars, puts, obs>>

\* one request GET /uploads/<filename>, with the name asked and the answer
Get ==
    \E filename \in ProbeNames :
        /\ last' = [op |-> "GET /uploads", filename |-> filename,
                    response |-> uploaded_file(files, key, filename)]
        /\ UNCHANGED <<key, files, catalogVars, threadVars, puts, obs>>

NextFetch == BlobPut({0}) \/ BlobPutRaises \/ BlobDelete \/ Restart \/ Get

SpecFetch == Init /\ [][NextFetch]_vars

\* C15: GET of a name of the uploads directory whose file cannot be decrypted
\* is answered with an error that is not the 404 of a missing name; an answer
\* other than 200 carries no bytes, a 200 carries the decrypted bytes; GET of
\* a name under which nothing exists is answered 404.
C15_UndecryptableIsNotMissing ==
    last.op = "GET /uploads" =>
        LET f == FileAt(files, last.filename)
        IN  /\ (last.filename \in Uploads(files)
                    /\ Decrypt(key, f.bytes) = InvalidToken)
                   => last.response.status \notin {200, 404}
            /\ last.response.status # 200 => last.response.body = <<>>
            /\ last.response.status = 200
                   => f.exists /\ last.response.body = Decrypt(key, f.bytes)
                               /\ last.response.body # InvalidToken
            /\ ~Exists(files, last.filename) => last.response.status = 404

-----------------------------------------------------------------------------
(* Deleting stored files: save_upload, delete_file_if_exists and GET /uploads
   on the names save_upload has returned *)

\* obs keeps the names save_upload has returned so far, and those of them
\* deleted since they were last returned
Returned == IF obs.op = "names" THEN obs.returned ELSE {}
Deleted == IF obs.op = "names" THEN obs.deleted ELSE {}

Names(returned, deleted) ==
    obs' = [op |-> "names", returned |-> returned, deleted |-> deleted]

AbsentName == <<"x">>

PutNamed ==
    \E filename \in UploadNames :
        LET r == save_upload(files, key, filename, <<0>>, 0)
        IN  /\ Cardinality(Uploads(files)) < MaxFiles
            /\ files' = r.fs
            /\ last' = [op |-> "save_upload", saved |-> r.name # None]
            /\ IF r.name = None THEN Unwatched
               ELSE Names(Returned \cup {r.name}, Deleted \ {r.name})
            /\ UNCHANGED <<key, catalogVars, threadVars, puts>>

DeleteNamed ==
    \E filename \in Returned \cup {AbsentName, <<>>, None} :
        /\ files' = delete_file_if_exists(files, filename)
        /\ last' = [op |-> "delete_file_if_exists", filename |-> filename,
                    before |-> files]
        /\ Names(Returned, Deleted \cup ({filename} \cap Returned))
        /\ UNCHANGED <<key, catalogVars, threadVars, puts>>

GetNamed ==
    \E filename \in Returned \cup {AbsentName} :
        /\ last' = [op |-> "GET /uploads", filename |-> filename,
                    response |-> uploaded_file(files, key, filename)]
        /\ UNCHANGED <<key, files, catalogVars, threadVars, puts, obs>>

NextDelete == PutNamed \/ DeleteNamed \/ GetNamed

SpecDelete == Init /\ [][NextDelete]_vars

\* C16: a name save_upload returned and delete_file_if_exists was called
\* with names no file, and GET of it is answered 404, until save_upload
\* returns it again.  delete_file_if_exists on a name without a file, on the
\* empty name or on None changes no file, and a delete of any name leaves the
\* files under other names as they were.
C16_DeletedStaysGone ==
    /\ \A n \in Deleted : ~Exists(files, n)
    /\ (last.op = "GET /uploads" /\ last.filename \in Deleted)
           => last.response.status = 404
    /\ last.op = "delete_file_if_exists" =>
           /\ (~Truthy(last.filename) \/ ~Exists(last.before, last.filename))
                  => files = last.before
           /\ \A path \in DOMAIN last.before :
                  (~Truthy(last.filename) \/ path # Locate(last.filename).path)
                      => path \in DOMAIN files /\ files[path] = last.before[path]

\* a.png was stored and deleted, another file is in the uploads directory,
\* and a.png is asked for
C16_Witness ==
    /\ last.op = "GET /uploads"
    /\ last.filename = A_PNG
    /\ A_PNG \in Deleted
    /\ Uploads(files) # {}

-----------------------------------------------------------------------------
(* The homepage: api_get_homepage and the titles it attaches to the layout
   entries *)

NoTable == "none"

\* an if/elif chain that knows 'video' only
TitleTable_VideoOnly(type) ==
    CASE type = "album" -> "albums"
      [] type = "video" -> "videos"
      [] type = "media" -> "media"
      [] OTHER -> NoTable

\* the table the if/elif chain of api_get_homepage looks a title up in
TitleTable(type) ==
    CASE type = "album" -> "albums"
      [] type \in {"video", "featured_video"} -> "videos"
      [] type = "media" -> "media"
      [] OTHER -> NoTable

\* the title api_get_homepage attaches to a layout row
ItemTitle(d, row) ==
    LET t == TitleTable(row.type)
    IN  IF t # NoTable /\ row.reference_id # NoId
           /\ row.reference_id \in DOMAIN d[t]
        THEN d[t][row.reference_id].title
        ELSE <<>>

\* GET /api/homepage: the layout rows in an order ORDER BY position allows,
\* each with its id and its title
api_get_homepage ==
    /\ \E order \in ListOrdered(db, "homepage_layout", NoId) :
           last' = [op |-> "api_get_homepage", status |-> 200,
                    layout |-> [k \in DOMAIN order |->
                                  [id |-> order[k],
                                   type |-> db.homepage_layout[order[k]].type,
                                   reference_id |->
                                       db.homepage_layout[order[k]].reference_id,
                                   title |-> ItemTitle(db, db.homepage_layout[order[k]])]]]
    /\ UNCHANGED <<key, files, db, threadVars, puts>>

GetHomepage ==
    /\ Running
    /\ api_get_homepage
    /\ Unwatched

NextHomepage ==
    \/ AddVideo({ADMIN_PIN}, {<<"t">>}, {Upload(A_MP4, <<0>>)}, {<<>>})
    \/ Upload_({ADMIN_PIN}, {Upload(A_PNG, <<0>>)}, {"image"})
    \/ AddBlock({ADMIN_PIN}, LayoutTypes, {NoId, 1, 2})
    \/ SetFeatured({ADMIN_PIN}, {1}, {FALSE})
    \/ Delete({ADMIN_PIN}, {"album", "video", "media"}, {1}, {FALSE})
    \/ GetHomepage

SpecHomepage == InitCatalog /\ [][NextHomepage]_vars

\* the title of row id of table t, or "" when there is no such row
TitleOrEmpty(t, id) == IF id \in DOMAIN db[t] THEN db[t][id].title ELSE <<>>

\* C17: in an answer of GET /api/homepage the title of an entry is "" when
\* its type is none of album, video, featured_video and media, when it has no
\* reference id, or when the row it refers to is not there (any more);
\* otherwise it is the title of the album, video or media row referred to,
\* 'video' and 'featured_video' both referring to videos.  The request is
\* answered 200 and changes neither the database nor the files.
C17_LabelResolution ==
    /\ [](last.op = "api_get_homepage" =>
            /\ last.status = 200
            /\ \A k \in DOMAIN last.layout :
                  LET item == last.layout[k]
                  IN  item.title =
                         IF item.reference_id = NoId THEN <<>>
                         ELSE CASE item.type = "album" ->
                                      TitleOrEmpty("albums", item.reference_id)
                                [] item.type = "video" ->
                                      TitleOrEmpty("videos", item.reference_id)
                                [] item.type = "featured_video" ->
                                      TitleOrEmpty("videos", item.reference_id)
                                [] item.type = "media" ->
                                      TitleOrEmpty("media", item.reference_id)
                                [] OTHER -> <<>>)
    /\ [][last'.op = "api_get_homepage" => (db' = db /\ files' = files)]_vars

\* the homepage was fetched with a featured entry whose video has a title and
\* an entry whose video was deleted
C17_Witness ==
    /\ last.op = "api_get_homepage"
    /\ \E k \in DOMAIN last.layout :
          /\ last.layout[k].type = "featured_video"
          /\ last.layout[k].title = <<"t">>
    /\ \E k \in DOMAIN last.layout :
          /\ last.layout[k].type = "video"
          /\ last.layout[k].reference_id = 1
          /\ last.layout[k].title = <<>>

-----------------------------------------------------------------------------
(* Ordered fetches: GET /api/media after uploads and reorders *)

\* GET /api/media: the ids of the media rows in an order
\* SELECT * FROM media ORDER BY position ASC may give them in
api_get_media ==
    /\ \E order \in ListOrdered(db, "media", NoId) :
           last' = [op |-> "api_get_media", status |-> 200, rows |-> order]
    /\ UNCHANGED <<key, files, db, threadVars, puts>>

GetMedia ==
    /\ Running
    /\ api_get_media
    /\ Unwatched

NextMedia ==
    \/ Upload_({ADMIN_PIN}, Parts({A_PNG, A_MP3}), {"image", "audio"})
    \/ Reorder({ADMIN_PIN}, {"media"}, {NoId}, {FALSE})
    \/ Delete({ADMIN_PIN}, {"media"}, {1, 2}, {FALSE})
    \/ GetMedia

SpecMedia == InitCatalog /\ [][NextMedia]_vars

\* C18: the rows of an ordered fetch come by position ascending, and rows of
\* equal position by id ascending.
C18_TiesById ==
    last.op = "api_get_media" =>
        \A i, j \in DOMAIN last.rows :
            i < j =>
                \/ db.media[last.rows[i]].position < db.media[last.rows[j]].position
                \/ /\ db.media[last.rows[i]].position = db.media[last.rows[j]].position
                   /\ last.rows[i] < last.rows[j]

\* the part of C18 the query states: position ascending
C18_ByPosition ==
    last.op = "api_get_media" =>
        \A i, j \in DOMAIN last.rows :
            i < j => db.media[last.rows[i]].position <= db.media[last.rows[j]].position

-----------------------------------------------------------------------------
(* Tracks and their albums: api_add_track, api_add_album,
   api_add_album_bundle and api_delete *)

NextTracks ==
    \/ AddAlbum({ADMIN_PIN}, {<<"t">>}, {NoUpload})
    \/ AddTrack({ADMIN_PIN}, {1, 2}, {<<"t">>}, {A_MP3})
    \/ AddAlbumBundle({ADMIN_PIN}, {<<"t">>}, {NoUpload}, {<<Upload(A_MP3, <<0>>)>>})
    \/ Delete({ADMIN_PIN}, {"album", "track"}, {1, 2}, {FALSE})

SpecTracks == InitCatalog /\ [][NextTracks]_vars

\* C19: the album_id of every track row is the id of an album row.
C19_TracksHaveAlbums ==
    \A i \in DOMAIN db.tracks : db.tracks[i].album_id \in DOMAIN db.albums

\* the part of C19 about api_delete: a delete of an album leaves no track of it
C19_NoTrackOutlivesDelete ==
    [][ (last'.op = "api_delete" /\ last'.status = 200)
            => \A i \in DOMAIN db'.tracks :
                   db'.tracks[i].album_id \in DOMAIN db.albums
                       => db'.tracks[i].album_id \in DOMAIN db'.albums ]_vars

-----------------------------------------------------------------------------
(* api_delete statement by statement, two requests at a time: the SELECT of
   the names, delete_file_if_exists, the DELETE, the commit *)

\* no request is being served
Quiet == \A p \in Procs : pc[p] = "idle"

delete_begin(p, typ, item_id) ==
    /\ pc[p] = "idle"
    /\ typ \in DeleteTypes /\ item_id # NoId
    /\ pc' = [pc EXCEPT ![p] = "delete_select"]
    /\ loc' = [loc EXCEPT ![p] =
                  [op |-> "api_delete", typ |-> typ, item_id |-> item_id,
                   names |-> {}, removed |-> {}]]
    /\ UNCHANGED <<db, txn, last, otherVars>>

\* the SELECTs of the row's file names
delete_select(p) ==
    /\ pc[p] = "delete_select"
    /\ pc' = [pc EXCEPT ![p] = "delete_files"]
    /\ loc' = [loc EXCEPT ![p].names = OwnedNames(View(p), loc[p].typ, loc[p].item_id)]
    /\ UNCHANGED <<db, txn, last, otherVars>>

\* delete_file_if_exists for each name read; removed keeps those whose file
\* was there and is gone
delete_files(p) ==
    /\ pc[p] = "delete_files"
    /\ files' = DeleteFiles(files, loc[p].names)
    /\ pc' = [pc EXCEPT ![p] = "delete_rows"]
    /\ loc' = [loc EXCEPT ![p].removed =
                  { n \in loc[p].names :
                       Truthy(n) /\ FileAt(files, n).exists /\ ~FileAt(files', n).exists }]
    /\ UNCHANGED <<db, txn, last, key, puts, obs>>

\* the DELETE statements
delete_rows(p) ==
    /\ pc[p] = "delete_rows"
    /\ Execute(p, DeleteCascade(View(p), loc[p].typ, loc[p].item_id))
    /\ pc' = [pc EXCEPT ![p] = "delete_commit"]
    /\ UNCHANGED <<loc, last, otherVars>>

\* the DELETE raises, the database being locked by another connection: the
\* answer is 500 and nothing is committed
delete_raise(p) ==
    /\ pc[p] = "delete_rows"
    /\ Locked(p)
    /\ txn' = [txn EXCEPT ![p] = NoTxn]
    /\ pc' = [pc EXCEPT ![p] = "idle"]
    /\ loc' = [loc EXCEPT ![p] = NoLoc]
    /\ last' = [op |-> "api_delete", status |-> 500, typ |-> loc[p].typ,
                item_id |-> loc[p].item_id, removed |-> loc[p].removed]
    /\ UNCHANGED <<db, otherVars>>

delete_commit(p) ==
    /\ pc[p] = "delete_commit"
    /\ db' = View(p)
    /\ txn' = [txn EXCEPT ![p] = NoTxn]
    /\ pc' = [pc EXCEPT ![p] = "idle"]
    /\ loc' = [loc EXCEPT ![p] = NoLoc]
    /\ last' = [op |-> "api_delete", status |-> 200, typ |-> loc[p].typ,
                item_id |-> loc[p].item_id, removed |-> loc[p].removed]
    /\ UNCHANGED otherVars

NextDeletes ==
    \/ Quiet /\ Upload_({ADMIN_PIN}, {Upload(A_PNG, <<0>>)}, {"image"})
    \/ \E p \in Procs, item_id \in {1, 2} : delete_begin(p, "media", item_id)
    \/ \E p \in Procs : delete_select(p)
    \/ \E p \in Procs : delete_files(p)
    \/ \E p \in Procs : delete_rows(p)
    \/ \E p \in Procs : delete_raise(p)
    \/ \E p \in Procs : delete_commit(p)

SpecDeletes == InitCatalog /\ [][NextDeletes]_vars

\* C20: a delete removes a file only after the row that names it is deleted
\* and the deletion committed: in no state does the database hold a row of a
\* delete whose file that delete has removed, neither while the delete runs
\* nor after it failed.
C20_RowsGoBeforeFiles ==
    /\ \A p \in Procs :
          pc[p] \in {"delete_rows", "delete_commit"}
              => loc[p].removed \cap OwnedNames(db, loc[p].typ, loc[p].item_id) = {}
    /\ (last.op = "api_delete" /\ last.status = 500)
          => last.removed \cap OwnedNames(db, last.typ, last.item_id) = {}

\* the part of C20 about a delete that is answered 500
C20_FailedDeleteKeepsFile ==
    (last.op = "api_delete" /\ last.status = 500)
        => last.removed \cap OwnedNames(db, last.typ, last.item_id) = {}

-----------------------------------------------------------------------------
(* api_add_album_bundle statement by statement, two requests at a time: the
   cover, the album row, one turn of the loop per upload, the commit *)

BundleOp == "api_add_album_bundle"

\* the request passes the checks before the cover is stored
bundle_begin(p, title, cover, track_files) ==
    /\ pc[p] = "idle"
    /\ StripWs(title) # <<>> /\ Len(track_files) # 0
    /\ RoomForRow /\ RoomForFile
    /\ pc' = [pc EXCEPT ![p] = "bundle_cover"]
    /\ loc' = [loc EXCEPT ![p] =
                  [op |-> BundleOp, title |-> title, cover |-> cover,
                   track_files |-> track_files, cover_path |-> <<>>,
                   album_id |-> NoId, idx |-> 1]]
    /\ UNCHANGED <<db, txn, last, otherVars>>

\* cover = save_upload(cover_file) for a cover of the image allow-list
bundle_cover(p) ==
    LET cover == loc[p].cover
        store == HasUpload(cover) /\ allowed_file(cover.filename, "image")
        saved == save_upload(files, key, cover.filename, cover.data, 0)
    IN  /\ pc[p] = "bundle_cover"
        /\ files' = IF store THEN saved.fs ELSE files
        /\ loc' = [loc EXCEPT ![p].cover_path = IF store THEN saved.name ELSE <<>>]
        /\ pc' = [pc EXCEPT ![p] = "bundle_album"]
        /\ UNCHANGED <<db, txn, last, key, puts, obs>>

\* the SELECT of the next album position and the INSERT of the album row;
\* album_id = cur.lastrowid
bundle_album(p) ==
    LET view == InsertRow(View(p), "albums",
                    [title |-> StripWs(loc[p].title), description |-> <<>>,
                     cover_path |-> loc[p].cover_path,
                     position |-> SelectNextPos(View(p), "albums", NoId)])
    IN  /\ pc[p] = "bundle_album"
        /\ Execute(p, view)
        /\ loc' = [loc EXCEPT ![p].album_id = LastRowId(view, "albums")]
        /\ pc' = [pc EXCEPT ![p] = "bundle_track"]
        /\ UNCHANGED <<last, otherVars>>

\* the INSERT of the album row raises "database is locked"
bundle_locked(p) ==
    /\ pc[p] = "bundle_album"
    /\ Locked(p)
    /\ Raise(p)
    /\ UNCHANGED otherVars

\* one turn of the loop over track_files
bundle_track(p) ==
    LET f     == loc[p].track_files[loc[p].idx]
        saved == save_upload(files, key, f.filename, f.data, 0)
    IN  /\ pc[p] = "bundle_track"
        /\ loc[p].idx <= Len(loc[p].track_files)
        /\ IF ~allowed_file(f.filename, "audio")
           THEN UNCHANGED <<db, txn, files>>
           ELSE /\ files' = saved.fs
                /\ Execute(p, InsertRow(View(p), "tracks",
                              [album_id |-> loc[p].album_id,
                               title |-> RSplitHead(f.filename),
                               file_path |-> saved.name,
                               position |-> loc[p].idx - 1]))
        /\ loc' = [loc EXCEPT ![p].idx = @ + 1]
        /\ UNCHANGED <<pc, last, key, puts, obs>>

\* db.commit() after the loop
bundle_commit(p) ==
    /\ pc[p] = "bundle_track"
    /\ loc[p].idx > Len(loc[p].track_files)
    /\ Commit(p, 200)
    /\ UNCHANGED otherVars

B_MP3 == <<"b", ".", "m", "p", "3">>

\* the track uploads of the bundle requests: no audio file / one / an image
\* followed by two audio files
TrackUploads ==
    { <<Upload(A_PNG, <<0>>)>>,
      <<Upload(B_MP3, <<1>>)>>,
      <<Upload(A_PNG, <<0>>), Upload(B_MP3, <<0>>), Upload(A_MP3, <<1>>)>> }

NextBundles ==
    \/ \E p \in Procs, cover \in Parts({A_PNG}), track_files \in TrackUploads :
          bundle_begin(p, <<"t">>, cover, track_files)
    \/ \E p \in Procs : bundle_cover(p)
    \/ \E p \in Procs : bundle_album(p)
    \/ \E p \in Procs : bundle_locked(p)
    \/ \E p \in Procs : bundle_track(p)
    \/ \E p \in Procs : bundle_commit(p)

SpecBundles == InitCatalog /\ [][NextBundles]_vars

\* the uploads of a bundle that pass the audio allow-list, in upload order
PassingAudio(track_files) ==
    SelectSeq(track_files, LAMBDA f : allowed_file(f.filename, "audio"))

\* what one served bundle request l has made of the database before: one new
\* album, one new track of it per passing upload, listed by position in upload
\* order (told apart by title and by the bytes stored), nothing else changed
BundleDone(before, after, fs, k, l) ==
    LET passing == PassingAudio(l.track_files)
        albums  == DOMAIN after.albums \ DOMAIN before.albums
        tracks  == DOMAIN after.tracks \ DOMAIN before.tracks
    IN  /\ \A t \in Tables : \A i \in DOMAIN before[t] :
              i \in DOMAIN after[t] /\ after[t][i] = before[t][i]
        /\ \A t \in Tables \ {"albums", "tracks"} : DOMAIN after[t] = DOMAIN before[t]
        /\ Cardinality(albums) = 1
        /\ Cardinality(tracks) = Len(passing)
        /\ \A a \in albums :
              /\ after.albums[a].title = StripWs(l.title)
              /\ InScope(after, "tracks", a) = tracks
              /\ Cardinality(ListOrdered(after, "tracks", a)) = 1
              /\ \A o \in ListOrdered(after, "tracks", a) :
                    \A n \in DOMAIN o :
                       /\ after.tracks[o[n]].title = RSplitHead(passing[n].filename)
                       /\ Decrypt(k, FileAt(fs, after.tracks[o[n]].file_path).bytes)
                              = passing[n].data

\* C21: the database changes only by the commit of a bundle request, answered
\* 200, and then by all of its rows at once: one album, one track per upload
\* of the audio allow-list and none for the others, the tracks listed by
\* position in upload order.  A bundle request ends otherwise only when the
\* database is locked, never for an upload outside the allow-list.
C21_BundleInOneCommit ==
    [][ /\ db' # db
           => \E p \in Procs :
                 /\ pc[p] = "bundle_track" /\ pc'[p] = "idle"
                 /\ last' = [op |-> BundleOp, status |-> 200]
                 /\ BundleDone(db, db', files', key, loc[p])
        /\ \A p \in Procs :
              (pc[p] # "idle" /\ pc'[p] = "idle" /\ last'.status # 200)
                  => pc[p] = "bundle_album" /\ Locked(p) ]_vars

\* a bundle of an image and two audio files is committed: album 2 has tracks
\* 1 and 2 at positions 1 and 2
C21_Witness ==
    /\ last = [op |-> BundleOp, status |-> 200]
    /\ 2 \in DOMAIN db.albums
    /\ InScope(db, "tracks", 2) = {1, 2}
    /\ db.tracks[1].position = 1 /\ db.tracks[1].title = <<"b">>
    /\ db.tracks[2].position = 2 /\ db.tracks[2].title = <<"a">>

-----------------------------------------------------------------------------
(* Rows that hold the same stored name: uploads, tracks attached by name,
   videos with a thumbnail given by name, and deletes *)

NextShared ==
    \/ Upload_({ADMIN_PIN}, {Upload(A_MP3, <<0>>), Upload(A_PNG, <<0>>)},
               {"audio", "image"})
    \/ AddTrack({ADMIN_PIN}, {1}, {<<"t">>}, {A_MP3})
    \/ AddVideo({ADMIN_PIN}, {<<"t">>}, {Upload(A_MP4, <<0>>)}, {<<>>, A_PNG})
    \/ Delete({ADMIN_PIN}, {"track", "video", "media", "album"}, {1, 2}, BOOLEAN)

SpecShared == InitCatalog /\ [][NextShared]_vars

\* C22: after a served delete, every file that a remaining row names and
\* that was there before the delete is still there, with the same bytes.
C22_DeleteSparesSharedFiles ==
    (obs.op = "api_delete" /\ last.status = 200)
        => \A n \in StoredNames(db) :
              Truthy(n) => FileAt(files, n) = FileAt(obs.files, n)

-----------------------------------------------------------------------------
(* The admin PIN: every mutating handler, called with the PIN in the query
   string, in the form, in the X-Admin-Pin header, wrong, or not at all *)

\* a pin that is not sent
NoPin == ""

PinSources == {NoPin, "bad", ADMIN_PIN}

\* what the requests of the model send: no pin, a wrong pin in one place,
\* the right pin in the form, or a wrong pin before the right one
Credentials ==
    { c \in [args : PinSources, form : PinSources, header : PinSources] :
         \/ c = [args |-> NoPin, form |-> NoPin, header |-> NoPin]
         \/ c = [args |-> "bad", form |-> NoPin, header |-> NoPin]
         \/ c = [args |-> NoPin, form |-> "bad", header |-> NoPin]
         \/ c = [args |-> NoPin, form |-> NoPin, header |-> "bad"]
         \/ c = [args |-> NoPin, form |-> ADMIN_PIN, header |-> NoPin]
         \/ c = [args |-> "bad", form |-> NoPin, header |-> ADMIN_PIN] }

\* request.args.get("pin") or request.form.get("pin") or
\* request.headers.get("X-Admin-Pin")
Provided(c) ==
    IF c.args # NoPin THEN c.args
    ELSE IF c.form # NoPin THEN c.form
    ELSE c.header

\* the request carries the admin PIN in none of the three places
Pinless(c) == ADMIN_PIN \notin {c.args, c.form, c.header}

\* obs keeps, for a request without the admin PIN, what it sent as its pin
\* and the database and the files it found
Seen(c) ==
    obs' = IF Pinless(c)
           THEN [op |-> "pinless", cred |-> c, db |-> db, files |-> files]
           ELSE [op |-> "pinned"]

PinUpload ==
    \E c \in Credentials :
        /\ RoomForRow /\ RoomForFile
        /\ api_upload(Provided(c), Upload(A_PNG, <<0>>), "image", 0)
        /\ Seen(c)

PinAddAlbum ==
    \E c \in Credentials :
        /\ RoomForRow /\ RoomForFile
        /\ api_add_album(Provided(c), <<"t">>, <<>>, Upload(A_PNG, <<0>>), 0)
        /\ Seen(c)

PinAddTrack ==
    \E c \in Credentials :
        /\ RoomForRow
        /\ api_add_track(Provided(c), 1, <<"t">>, A_MP3)
        /\ Seen(c)

PinAddVideo ==
    \E c \in Credentials :
        /\ RoomForRow /\ RoomForFile
        /\ api_add_video(Provided(c), <<"t">>, <<>>, Upload(A_MP4, <<0>>), <<>>, 0)
        /\ Seen(c)

PinReorder ==
    \E c \in Credentials, order \in {<<2, 1>>} :
        /\ api_reorder(Provided(c), "albums", order, NoId)
        /\ Seen(c)

PinDelete ==
    \E c \in Credentials, typ \in {"media"} :
        /\ api_delete(Provided(c), typ, 1)
        /\ Seen(c)

PinUpdateAlbum ==
    \E c \in Credentials :
        /\ RoomForFile
        /\ api_update_album(Provided(c), 1, <<"t">>, <<>>, Upload(A_PNG, <<0>>), 0)
        /\ Seen(c)

PinUpdateVideo ==
    \E c \in Credentials :
        /\ RoomForFile
        /\ api_update_video(Provided(c), 1, <<"t">>, <<>>, <<>>, Upload(A_MP4, <<0>>), 0)
        /\ Seen(c)

PinAddLayoutBlock ==
    \E c \in Credentials :
        /\ RoomForRow
        /\ api_add_layout_block(Provided(c), "text", NoId)
        /\ Seen(c)

PinSetFeaturedVideo ==
    \E c \in Credentials :
        /\ RoomForRow
        /\ api_set_featured_video(Provided(c), 1)
        /\ Seen(c)

PinAddAlbumBundle ==
    \E c \in Credentials :
        /\ RoomForRow /\ RoomForFile
        /\ api_add_album_bundle(Provided(c), <<"t">>, <<>>, NoUpload,
                                <<Upload(A_MP3, <<0>>)>>, 0)
        /\ Seen(c)

NextPin ==
    \/ PinUpload
    \/ PinAddAlbum
    \/ PinAddTrack
    \/ PinAddVideo
    \/ PinReorder
    \/ PinDelete
    \/ PinUpdateAlbum
    \/ PinUpdateVideo
    \/ PinAddLayoutBlock
    \/ PinSetFeaturedVideo
    \/ PinAddAlbumBundle

SpecPin == InitCatalog /\ [][NextPin]_vars

MutatingOps ==
    {"api_upload", "api_add_album", "api_add_track", "api_add_video",
     "api_reorder", "api_delete", "api_update_album", "api_update_video",
     "api_add_layout_block", "api_set_featured_video", "api_add_album_bundle"}

\* C23: a request to a mutating handler that carries the admin PIN neither in
\* the query string nor in the form nor in the header is answered 401 and
\* leaves the database and the files as it found them.
C23_NoPinNoChange ==
    obs.op = "pinless"
        => /\ last.op \in MutatingOps
           /\ last.status = 401
           /\ db = obs.db
           /\ files = obs.files

\* a delete with a wrong pin in the form was refused on a catalog that holds
\* an uploaded file
C23_Witness ==
    /\ obs.op = "pinless"
    /\ obs.cred = [args |-> NoPin, form |-> "bad", header |-> NoPin]
    /\ last = [op |-> "api_delete", status |-> 401]
    /\ 1 \in DOMAIN db.media
    /\ Uploads(files) # {}
====
